---- MODULE Spec2Model ----
(***************************************************************************)
(* A model of the task-prioritisation pipeline: the analysis cache, the    *)
(* priority scorer, the timeframe categorizer, the URL normalizer, the     *)
(* duplicate resolver and the orchestration pass of main().                *)
(*                                                                         *)
(* Each component has its own specification (SpecCache, SpecScore, ...)    *)
(* over its own group of variables; the variables of the other components  *)
(* stay at their idle value.                                               *)
(***************************************************************************)
EXTENDS Integers, Sequences, FiniteSets, TLC

VARIABLES
    \* ---- analysis cache (src/cache/analysis_cache.py, used by main.py)
    cache,      \* the persisted store: a set of entries
    now,        \* the wall clock read by set()
    got,        \* the last get(): its arguments and what it returned
    written,    \* history: per task id, the arguments of the last set() still live
    \* ---- priority scorer (src/src/rules/priority_ranker.py)
    clockH,     \* datetime.now(), in hours
    item,       \* the {"task", "analysis"} record handed to the scorer
    score_out,  \* what calculate_priority_score returned, or that it raised
    ranked_tasks,   \* the list handed to categorize_by_timeframe
    categorized,    \* the four buckets it returned
    \* ---- URL normalizer (src/find_duplicates.py, src/main.py)
    url,            \* the string handed to normalize_url, as a list of tokens
    normalized,     \* the results of normalize_url applied once, then again
    \* ---- duplicate resolver (src/find_duplicates.py, src/main.py)
    fn,             \* the function that runs: delete_duplicates or remove_duplicate_urls
    dry_run,        \* delete_duplicates' dry_run argument
    parsed_tasks,   \* the task list it is given
    remote,         \* the ids of the tasks the To Do service holds
    url_duplicates, \* the duplicate groups, in the order the dict yields them
    dd_pc,          \* where the function is: start, loop, done
    dd_pos,         \* the group and the to_delete item the loop is at
    stats,          \* the counters deleted, failed, skipped
    attempts,       \* history: the delete_task calls made, with their outcome
    \* ---- orchestration pass (src/main.py), with cache, clockH, parsed_tasks,
    \*      ranked_tasks and categorized from above
    main_pc,            \* where main() is: cleanup, analyze, rank, categorize, done, aborted
    tasks_with_analysis,\* the list Step 4 builds
    replies,            \* history: per task, what the AI provider answered
    \* ---- list moves (src/move_to_tasks.py and the other move scripts)
    mv_fn,      \* the code that moves: move_task or the loop of move_to_delete_list.py
    mv_tasks,   \* the tasks to move, each with the list it is in
    mv_store,   \* the To Do service: the originals it holds, the copies in the target
    mv_log,     \* history: per move, the calls made, their outcomes and the result
    \* ---- start of a run (src/src/config.py, src/main.py)
    config,     \* the settings read from the environment
    cfg_pc,     \* where main() is: validate, fetch, dedup, analyzer, done or an exit
    errors,     \* the messages of the ValueError of Config.validate
    events,     \* history: what the run has done to tasks so far
    \* ---- two runs of main() in a row (src/main.py)
    pass_no,        \* the run: 1 or 2
    urls_fetched,   \* the ids of the tasks whose URL Step 3 fetched in this run
    prev_pass,      \* history: tasks_with_analysis of the run before
    \* ---- construction of the ranker (src/src/rules/priority_ranker.py)
    weights_arg,    \* the weights argument of PriorityRanker(...)
    weights,        \* self.weights after __init__, or that __init__ raised
    \* ---- a whole run of main() (src/main.py), with the variables of the
    \*      duplicate resolver and of the orchestration pass from above
    cleanups,       \* history: how often cleanup_completed was called in this run
    \* ---- move_list_to_tasks (src/move_to_tasks.py), with the variables of the
    \*      list moves from above
    mv_list,        \* the source list, the delete_after argument, what became of the list
    \* ---- the chats (src/chat_web.py, src/chat_tasks.py)
    chat_fn,        \* which program holds the conversation
    conversation_history,  \* the messages kept between the requests
    chat_log        \* history: the requests made, each with the history it found

cacheVars == <<cache, now, got, written>>
scoreVars == <<item, score_out>>
catVars   == <<ranked_tasks, categorized>>
normVars  == <<url, normalized>>
dedupVars == <<fn, dry_run, parsed_tasks, remote, url_duplicates, dd_pc, dd_pos, stats,
               attempts>>

mainVars  == <<main_pc, tasks_with_analysis, replies>>
moveVars  == <<mv_fn, mv_tasks, mv_store, mv_log>>
cfgVars   == <<config, cfg_pc, errors, events>>
passVars  == <<pass_no, urls_fetched, prev_pass>>
wVars     == <<weights_arg, weights>>
runVars   == <<cleanups>>
listVars  == <<mv_list>>
chatVars  == <<chat_fn, conversation_history, chat_log>>
restVars  == <<moveVars, cfgVars, passVars, wVars, runVars, listVars, chatVars>>

vars == <<cacheVars, clockH, scoreVars, catVars, normVars, dedupVars, mainVars, restVars>>

\* What the steps of one component leave alone.
notCache == <<clockH, scoreVars, catVars, normVars, dedupVars, mainVars, restVars>>
notScore == <<cacheVars, catVars, normVars, dedupVars, mainVars, restVars>>
notCat   == <<cacheVars, scoreVars, normVars, dedupVars, mainVars, restVars>>
notNorm  == <<cacheVars, clockH, scoreVars, catVars, dedupVars, mainVars, restVars>>
notDedup == <<cacheVars, clockH, scoreVars, catVars, normVars, mainVars, restVars>>
notMain  == <<now, got, written, scoreVars, normVars, fn, dry_run, remote, url_duplicates,
              dd_pc, dd_pos, stats, attempts, restVars>>
notMove  == <<cacheVars, clockH, scoreVars, catVars, normVars, dedupVars, mainVars, cfgVars,
              passVars, wVars, runVars, listVars, chatVars>>
notCfg   == <<cacheVars, clockH, scoreVars, catVars, normVars, dedupVars, mainVars, moveVars,
              passVars, wVars, runVars, listVars, chatVars>>
notPass  == <<now, got, written, scoreVars, normVars, fn, dry_run, remote, url_duplicates,
              dd_pc, dd_pos, stats, attempts, moveVars, cfgVars, wVars, runVars,
              listVars, chatVars>>
notW     == <<cacheVars, clockH, scoreVars, catVars, normVars, dedupVars, mainVars, moveVars,
              cfgVars, passVars, runVars, listVars, chatVars>>
notRun   == <<now, got, written, clockH, scoreVars, normVars, fn, dry_run, remote,
              url_duplicates, dd_pos, stats, attempts, tasks_with_analysis, replies,
              catVars, moveVars, cfgVars, passVars, wVars, listVars, chatVars>>

\* A variable of a component that is not running.
Unused == [kind |-> "none"]

--------------------------------------------------------------------------
(* Generic helpers                                                         *)

Range(s) == {s[i] : i \in 1..Len(s)}

\* The duplicate-free sequences over S (a Python list(set(...))).
RECURSIVE Perms(_)
Perms(S) ==
    IF S = {} THEN {<<>>}
    ELSE UNION {{<<x>> \o p : p \in Perms(S \ {x})} : x \in S}

ListsOfSet(S) == UNION {Perms(T) : T \in SUBSET S}

ScoreIdle ==
    /\ item = Unused
    /\ score_out = Unused

CatIdle ==
    /\ ranked_tasks = <<>>
    /\ categorized = Unused

NormIdle ==
    /\ url = <<>>
    /\ normalized = <<>>

MainIdle ==
    /\ main_pc = "idle"
    /\ tasks_with_analysis = <<>>
    /\ replies = <<>>

MoveIdle ==
    /\ mv_fn = "none"
    /\ mv_tasks = <<>>
    /\ mv_store = Unused
    /\ mv_log = <<>>

CfgIdle ==
    /\ config = Unused
    /\ cfg_pc = "idle"
    /\ errors = <<>>
    /\ events = <<>>

PassIdle ==
    /\ pass_no = 0
    /\ urls_fetched = <<>>
    /\ prev_pass = <<>>

WeightsIdle ==
    /\ weights_arg = Unused
    /\ weights = Unused

\* The components added after the orchestration pass are not running.
ListIdle == mv_list = Unused

ChatIdle == chat_fn = "none" /\ conversation_history = <<>> /\ chat_log = <<>>

RestIdle == MoveIdle /\ CfgIdle /\ PassIdle /\ WeightsIdle /\ cleanups = 0 /\ ListIdle /\ ChatIdle

DedupOff ==
    /\ fn = "none"
    /\ dry_run = FALSE
    /\ remote = {}
    /\ url_duplicates = <<>>
    /\ dd_pc = "idle"
    /\ dd_pos = Unused
    /\ stats = Unused
    /\ attempts = <<>>

DedupIdle == DedupOff /\ parsed_tasks = <<>>

--------------------------------------------------------------------------
(* Analysis cache                                                          *)

TaskIds == {"t1", "t2"}
Titles  == {"Title A", "Title A (edited)"}
Urls    == {"u1", "u2"}
Results == {"r1", "r2"}
Absent  == "absent"
NoGet   == [op |-> "none"]
NotWritten == [live |-> FALSE]
MaxClock == 1

\* Python's string order on the URLs of the model.
UrlRank(u) == CASE u = "u1" -> 1 [] u = "u2" -> 2 [] u = "u3" -> 3 [] OTHER -> 0

\* sorted(urls): insertion into an ascending list.
RECURSIVE InsertUrl(_, _)
InsertUrl(u, s) ==
    IF s = <<>> THEN <<u>>
    ELSE IF UrlRank(u) < UrlRank(Head(s)) THEN <<u>> \o s
    ELSE <<Head(s)>> \o InsertUrl(u, Tail(s))

RECURSIVE SortedUrls(_)
SortedUrls(urls) ==
    IF urls = <<>> THEN <<>> ELSE InsertUrl(Head(urls), SortedUrls(Tail(urls)))

\* A mutant for the checks: the fingerprint of the list as given.
FingerprintUnsorted(title, urls) == <<title, urls>>

\* hash(title, sorted(urls)), an injective encoding of the hashed content.
Fingerprint(title, urls) == <<title, SortedUrls(urls)>>

EntriesOf(c, task_id) == {e \in c : e.task_id = task_id}

\* get(task_id, title, urls): the stored analysis on a fingerprint match.
CacheLookup(c, task_id, title, urls) ==
    LET hits == {e \in EntriesOf(c, task_id) :
                    e.fingerprint = Fingerprint(title, urls)}
    IN  IF hits = {} THEN Absent ELSE (CHOOSE e \in hits : TRUE).analysis

\* A mutant for the checks: an upsert keyed by (task_id, fingerprint).
CacheStoreKeepOld(c, task_id, title, urls, result, ts) ==
    {e \in c : ~(e.task_id = task_id /\ e.fingerprint = Fingerprint(title, urls))}
        \cup {[task_id |-> task_id, fingerprint |-> Fingerprint(title, urls),
               analysis |-> result, timestamp |-> ts]}

\* set(task_id, title, urls, result): overwrite whatever the id had.
CacheStore(c, task_id, title, urls, result, ts) ==
    {e \in c : e.task_id # task_id}
        \cup {[task_id |-> task_id, fingerprint |-> Fingerprint(title, urls),
               analysis |-> result, timestamp |-> ts]}

\* A mutant for the checks: cleanup that drops the active entries instead.
CacheCleanupInverted(c, active_ids) == {e \in c : e.task_id \notin active_ids}

\* cleanup(active_ids): drop the entries of ids that are no longer active.
CacheCleanup(c, active_ids) == {e \in c : e.task_id \in active_ids}

CacheIdle ==
    /\ cache = {}
    /\ now = 0
    /\ got = NoGet
    /\ written = [id \in TaskIds |-> NotWritten]

CacheSet(task_id, title, urls, result) ==
    /\ cache' = CacheStore(cache, task_id, title, urls, result, now)
    /\ written' = [written EXCEPT ![task_id] =
                      [live |-> TRUE, title |-> title, urls |-> Range(urls),
                       result |-> result]]
    /\ got' = [op |-> "set", task_id |-> task_id,
               replaced |-> {e.fingerprint : e \in EntriesOf(cache, task_id)}]
    /\ UNCHANGED <<now, notCache>>

CacheGet(task_id, title, urls) ==
    /\ got' = [op |-> "get", task_id |-> task_id, title |-> title, urls |-> urls,
               result |-> CacheLookup(cache, task_id, title, urls)]
    /\ UNCHANGED <<cache, now, written, notCache>>

CacheCleanupCompleted(active_ids) ==
    /\ cache' = CacheCleanup(cache, active_ids)
    /\ written' = [id \in TaskIds |->
                      IF id \in active_ids THEN written[id] ELSE NotWritten]
    /\ got' = [op |-> "cleanup", active_ids |-> active_ids,
               removed |-> {e.task_id : e \in cache \ CacheCleanup(cache, active_ids)}]
    /\ UNCHANGED <<now, notCache>>

Tick ==
    /\ now < MaxClock
    /\ now' = now + 1
    /\ UNCHANGED <<cache, got, written, notCache>>

InitCache ==
    /\ CacheIdle /\ clockH = 0 /\ ScoreIdle /\ CatIdle /\ NormIdle /\ DedupIdle /\ MainIdle
    /\ RestIdle

NextCache ==
    \/ \E id \in TaskIds, t \in Titles, u \in ListsOfSet(Urls), r \in Results :
          CacheSet(id, t, u, r)
    \/ \E id \in TaskIds, t \in Titles, u \in ListsOfSet(Urls) :
          CacheGet(id, t, u)
    \/ \E a \in SUBSET TaskIds : CacheCleanupCompleted(a)
    \/ Tick

SpecCache == InitCache /\ [][NextCache]_vars

\* What get(task_id, title, urls) must return given the last live set() of the id.
ExpectedGet(task_id, title, urls) ==
    LET w == written[task_id]
    IN  IF w.live /\ w.title = title /\ w.urls = Range(urls)
        THEN w.result ELSE Absent

\* C1: get returns the stored analysis if and only if the id has an entry whose
\* title and URL set are those asked for, whatever the order of the URLs; every
\* other get is a miss that returns absent.
C1_GetHitsIffSameTitleAndUrlSet ==
    got.op = "get" => got.result = ExpectedGet(got.task_id, got.title, got.urls)

\* A hit on a URL list given in another order than the sorted one.
C1_Witness ==
    /\ got.op = "get"
    /\ got.result \in Results
    /\ got.urls = <<"u2", "u1">>

\* C2: the cache never holds two entries for one task id, and every lookup
\* answers from the last set() of the id alone: the superseded entry is a miss.
C2_OneEntryPerIdLastWriteWins ==
    \A id \in TaskIds :
        /\ Cardinality(EntriesOf(cache, id)) <= 1
        /\ \A t \in Titles, u \in ListsOfSet(Urls) :
              CacheLookup(cache, id, t, u) = ExpectedGet(id, t, u)

\* A set() that has just replaced an entry of another fingerprint.
C2_Witness ==
    /\ got.op = "set"
    /\ got.replaced # {}
    /\ \A e \in EntriesOf(cache, got.task_id) : e.fingerprint \notin got.replaced

\* C3: a cleanup step removes every entry of an id outside active_ids and leaves
\* the entries of the active ids as they were, so each lookup on them is unchanged.
C3_CleanupRemovesExactlyInactive ==
    [][got'.op = "cleanup" =>
        \A id \in TaskIds :
            IF id \in got'.active_ids
            THEN /\ EntriesOf(cache', id) = EntriesOf(cache, id)
                 /\ \A t \in Titles, u \in ListsOfSet(Urls) :
                       CacheLookup(cache', id, t, u) = CacheLookup(cache, id, t, u)
            ELSE EntriesOf(cache', id) = {}]_vars

\* A cleanup that removed an entry and kept another.
C3_Witness ==
    /\ got.op = "cleanup"
    /\ got.removed # {}
    /\ \E id \in got.active_ids : EntriesOf(cache, id) # {}

--------------------------------------------------------------------------
(* Priority scorer                                                         *)
(*                                                                         *)
(* Times are whole hours.  A date field of a task is None, a string that   *)
(* dateutil cannot parse, or a moment.  Sub-scores are kept in the units   *)
(* that make the arithmetic exact: the weighted sum is in 1/10000, the     *)
(* rounded score in 1/100 (8000 is 80.00).                                 *)

NoDate  == [kind |-> "none"]
BadDate == [kind |-> "bad"]
At(h)   == [kind |-> "at", h |-> h]

Missing == [kind |-> "missing"]
Null    == [kind |-> "null"]
Str(x)  == [kind |-> "str", s |-> x]
Num(x)  == [kind |-> "num", v |-> x]

Raised   == [kind |-> "raised"]
Value(x) == [kind |-> "value", v |-> x]

\* str.lower() on the strings of the model.
Lower(x) ==
    CASE x = "High" -> "high"
      [] x = "NORMAL" -> "normal"
      [] x = "Urgent" -> "urgent"
      [] x = "Critical" -> "critical"
      [] x = "WWW." -> "www."
      [] x = "X.COM" -> "x.com"
      [] x = "A" -> "a"
      [] x = "ID" -> "id"
      [] x = "REF" -> "ref"
      [] x = "%2F" -> "%2f"
      [] x = "%3D" -> "%3d"
      [] x = "%3F" -> "%3f"
      [] x = "%3A" -> "%3a"
      [] x = "%3B" -> "%3b"
      [] x = "%2B" -> "%2b"
      [] OTHER -> x

\* timedelta.days of (a - b): whole days, rounded down.
DaysBetween(a, b) == (a - b) \div 24

\* datetime.date(): the calendar day of a moment.
DateOf(h) == h \div 24

\* _score_ai_priority: analysis.get("priority_score", 50), in 1/100.
ScoreAiPriority(analysis) ==
    IF analysis.priority_score.kind = "missing" THEN 5000
    ELSE analysis.priority_score.v

\* A mutant for the checks: the day of the deadline counted as overdue.
ScoreDeadlineUrgencyDayEarly(task, nowH) ==
    IF task.due_date.kind = "none" THEN 20
    ELSE IF task.due_date.kind = "bad" THEN 20
    ELSE LET days_until_due == DaysBetween(task.due_date.h, nowH)
         IN  IF days_until_due <= 0 THEN 100
             ELSE IF days_until_due <= 3 THEN 80
             ELSE IF days_until_due <= 7 THEN 70
             ELSE IF days_until_due <= 14 THEN 50
             ELSE IF days_until_due <= 30 THEN 35
             ELSE 20

\* _score_deadline_urgency
ScoreDeadlineUrgency(task, nowH) ==
    IF task.due_date.kind = "none" THEN 20
    ELSE IF task.due_date.kind = "bad" THEN 20
    ELSE LET days_until_due == DaysBetween(task.due_date.h, nowH)
         IN  IF days_until_due < 0 THEN 100
             ELSE IF days_until_due = 0 THEN 90
             ELSE IF days_until_due <= 3 THEN 80
             ELSE IF days_until_due <= 7 THEN 70
             ELSE IF days_until_due <= 14 THEN 50
             ELSE IF days_until_due <= 30 THEN 35
             ELSE 20

\* _score_recency
ScoreRecency(task, nowH) ==
    IF task.created_at.kind = "none" THEN 50
    ELSE IF task.created_at.kind = "bad" THEN 50
    ELSE LET days_old == DaysBetween(nowH, task.created_at.h)
         IN  IF days_old = 0 THEN 100
             ELSE IF days_old <= 3 THEN 80
             ELSE IF days_old <= 7 THEN 60
             ELSE IF days_old <= 30 THEN 40
             ELSE 20

\* _score_importance: task.get("importance", "normal").lower() raises on None.
ScoreImportance(task) ==
    IF task.importance.kind = "null" THEN Raised
    ELSE LET importance == IF task.importance.kind = "missing" THEN "normal"
                           ELSE Lower(task.importance.s)
         IN  Value(CASE importance = "high" -> 100
                     [] importance = "normal" -> 50
                     [] importance = "low" -> 25
                     [] OTHER -> 50)

\* category_scores.get(category, 50)
CategoryBase(category) ==
    CASE category = "urgent" -> 95
      [] category = "apply" -> 85
      [] category = "contact" -> 80
      [] category = "important" -> 80
      [] category = "review" -> 65
      [] category = "planning" -> 60
      [] category = "research" -> 55
      [] category = "reading" -> 40
      [] category = "watch" -> 35
      [] category = "routine" -> 30
      [] category = "other" -> 50
      [] OTHER -> 50

\* urgency_multipliers.get(urgency_level, 1.0), in tenths.
UrgencyMultiplier(urgency_level) ==
    CASE urgency_level = "critical" -> 12
      [] urgency_level = "high" -> 11
      [] urgency_level = "medium" -> 10
      [] urgency_level = "low" -> 8
      [] OTHER -> 10

Min(a, b) == IF a <= b THEN a ELSE b

\* _score_category: min(base_score * multiplier, 100), in tenths.
ScoreCategory(analysis) ==
    LET category == IF analysis.category.kind = "missing" THEN "other"
                    ELSE Lower(analysis.category.s)
        urgency_level == IF analysis.urgency_level.kind = "missing" THEN "medium"
                         ELSE Lower(analysis.urgency_level.s)
    IN  Min(CategoryBase(category) * UrgencyMultiplier(urgency_level), 1000)

\* The default weights, in 1/100.
Weights ==
    [ai_priority |-> 40, deadline_urgency |-> 25, recency |-> 15,
     importance |-> 10, category |-> 10]

\* round(x, 2) of x given in 1/10000: the nearest 1/100, a tie to the even one.
Round2(x) ==
    LET q == x \div 100
        r == x % 100
    IN  IF r > 50 THEN q + 1
        ELSE IF r < 50 THEN q
        ELSE IF q % 2 = 0 THEN q ELSE q + 1

\* calculate_priority_score: the rounded weighted sum of the five sub-scores.
CalculatePriorityScore(task, analysis, nowH) ==
    LET imp == ScoreImportance(task)
    IN  IF imp.kind = "raised" THEN Raised
        ELSE Value(Round2(
                 Weights.ai_priority * ScoreAiPriority(analysis)
               + Weights.deadline_urgency * 100 * ScoreDeadlineUrgency(task, nowH)
               + Weights.recency * 100 * ScoreRecency(task, nowH)
               + Weights.importance * 100 * imp.v
               + Weights.category * 10 * ScoreCategory(analysis)))

\* The inputs of the scorer's specification.
ScoreNows == {2409, 2423}
ScoreDueDates ==
    {NoDate, BadDate} \cup {At(2409 + d) : d \in {-48, -1, 1, 30, 240, 960}}
ScoreCreatedDates ==
    {NoDate, BadDate} \cup {At(2409 - d) : d \in {0, 48, 480, 1440}}
ScoreImportances ==
    {Missing, Null, Str("high"), Str("normal"), Str("low"), Str("High"), Str("someday")}
ScoreAiScores == {Missing} \cup {Num(v) : v \in {0, 7213, 10000, -5000, 15000}}
ScoreCategories == {Missing, Str("urgent"), Str("routine"), Str("errand")}
ScoreUrgencies == {Missing, Str("critical"), Str("low"), Str("asap")}

InitScore ==
    /\ CacheIdle
    /\ CatIdle
    /\ NormIdle
    /\ DedupIdle
    /\ MainIdle
    /\ RestIdle
    /\ clockH \in ScoreNows
    /\ \E d \in ScoreDueDates, c \in ScoreCreatedDates, i \in ScoreImportances,
          a \in ScoreAiScores, g \in ScoreCategories, u \in ScoreUrgencies :
          item = [task |-> [due_date |-> d, created_at |-> c, importance |-> i],
                  analysis |-> [priority_score |-> a, category |-> g,
                                urgency_level |-> u]]
    /\ score_out = Unused

Score ==
    /\ score_out = Unused
    /\ score_out' = CalculatePriorityScore(item.task, item.analysis, clockH)
    /\ UNCHANGED <<clockH, item, notScore>>

NextScore == Score

SpecScore == InitScore /\ [][NextScore]_vars

\* C4: for every task and analysis (any of due_date, created_at, importance and
\* the AI priority_score missing, importance null, the AI score out of range) the
\* scorer returns a number in [0,100] and does not raise.
C4_ScoreTotalAndInRange ==
    score_out # Unused =>
        /\ score_out.kind = "value"
        /\ 0 <= score_out.v
        /\ score_out.v <= 10000

\* The same with the inputs the code handles: importance not null and the AI
\* score absent or within [0,100].
ScoreInRangeOnTypedInput ==
    (/\ score_out # Unused
     /\ item.task.importance.kind # "null"
     /\ item.analysis.priority_score.kind = "num" =>
            item.analysis.priority_score.v \in 0..10000)
    => (score_out.kind = "value" /\ score_out.v \in 0..10000)

--------------------------------------------------------------------------
(* Construction of the ranker                                              *)
(*                                                                         *)
(* A weight is a whole number of thousandths; after the division by the    *)
(* total it is the fraction w / den, so self.weights is the numerators     *)
(* with their common denominator.                                          *)

WeightUnit == 1000

WeightKeys == {"ai_priority", "deadline_urgency", "recency", "importance", "category"}

\* sum(self.weights.values())
RECURSIVE SumOver(_, _)
SumOver(w, keys) ==
    IF keys = {} THEN 0
    ELSE LET k == CHOOSE x \in keys : TRUE
         IN  w[k] + SumOver(w, keys \ {k})

Total(w) == SumOver(w, DOMAIN w)

Abs(x) == IF x < 0 THEN -x ELSE x

\* weights or {...}: None and the empty dict give the defaults.
WeightsOrDefault(arg) ==
    IF arg.kind = "none" \/ DOMAIN arg.w = {}
    THEN [k \in WeightKeys |-> (WeightUnit \div 100) * Weights[k]]
    ELSE arg.w

\* The division of __init__: v / total raises ZeroDivisionError on a total of 0.
Normalized(w, total) ==
    IF total = 0 THEN Raised ELSE Value([w |-> w, den |-> total])

\* PriorityRanker.__init__: the weights are divided by their total when it is
\* more than 0.01 away from 1.0.
NewRanker(arg) ==
    IF Abs(Total(WeightsOrDefault(arg)) - WeightUnit) > WeightUnit \div 100
    THEN Normalized(WeightsOrDefault(arg), Total(WeightsOrDefault(arg)))
    ELSE Value([w |-> WeightsOrDefault(arg), den |-> WeightUnit])

\* The weight configurations: none, the empty dict, and every choice of these
\* values for the five factors.
WeightValues == {0, 3, 250, 500, 1000, -500}

WeightArgs ==
    {[kind |-> "none"], [kind |-> "dict", w |-> <<>>]}
        \cup {[kind |-> "dict", w |-> w] : w \in [WeightKeys -> WeightValues]}

InitWeights ==
    /\ CacheIdle
    /\ clockH = 0
    /\ ScoreIdle
    /\ CatIdle
    /\ NormIdle
    /\ DedupIdle
    /\ MainIdle
    /\ MoveIdle
    /\ CfgIdle
    /\ PassIdle
    /\ cleanups = 0
    /\ ListIdle
    /\ ChatIdle
    /\ weights_arg \in WeightArgs
    /\ weights = Unused

Construct ==
    /\ weights = Unused
    /\ weights' = NewRanker(weights_arg)
    /\ UNCHANGED <<weights_arg, notW>>

NextWeights == Construct

SpecWeights == InitWeights /\ [][NextWeights]_vars

\* C20: for every weight configuration the construction succeeds and the
\* weights used for scoring sum to 1.0; a configuration whose total is not 1.0
\* has each weight divided by the total.
C20_WeightsSumToOne ==
    weights # Unused =>
        /\ weights.kind = "value"
        /\ Total(weights.v.w) = weights.v.den

\* What holds: the construction fails only on a total of 0, and the weights
\* used sum to 1.0 unless the total given is within 0.01 of 1.0 and not 1.0.
WeightsSumToOneOutsideTolerance ==
    weights # Unused =>
        /\ weights.kind = "raised" <=> Total(WeightsOrDefault(weights_arg)) = 0
        /\ (weights.kind = "value"
              /\ Abs(Total(WeightsOrDefault(weights_arg)) - WeightUnit) \notin 1..(WeightUnit \div 100))
             => Total(weights.v.w) = weights.v.den

--------------------------------------------------------------------------
(* The deadline sub-score on its own                                       *)

\* The due moments of this specification: every hour from two days before now
\* to two days after, then the hours around each whole day up to MaxDueDays.
MaxDueDays == 32

UrgencyDueHours(nowH) ==
    {nowH + o : o \in -48..48}
        \cup {nowH + 24 * d + o : d \in 0..MaxDueDays, o \in {-1, 0, 1}}

InitUrgency ==
    /\ CacheIdle
    /\ CatIdle
    /\ NormIdle
    /\ DedupIdle
    /\ MainIdle
    /\ RestIdle
    /\ clockH \in {2400, 2409, 2423}
    /\ \E d \in {NoDate, BadDate} \cup {At(h) : h \in UrgencyDueHours(clockH)} :
          item = [task |-> [due_date |-> d]]
    /\ score_out = Unused

Urgency ==
    /\ score_out = Unused
    /\ score_out' = Value(ScoreDeadlineUrgency(item.task, clockH))
    /\ UNCHANGED <<clockH, item, notScore>>

NextUrgency == Urgency

SpecUrgency == InitUrgency /\ [][NextUrgency]_vars

\* The table of the sub-score, by the hours from now to the due moment.
UrgencyRow(ahead) ==
    IF ahead < 0 THEN 100
    ELSE IF ahead < 24 THEN 90
    ELSE IF ahead < 4 * 24 THEN 80
    ELSE IF ahead < 8 * 24 THEN 70
    ELSE IF ahead < 15 * 24 THEN 50
    ELSE IF ahead < 31 * 24 THEN 35
    ELSE 20

--------------------------------------------------------------------------
(* Timeframe categorizer                                                   *)

\* _is_due_today: the due date parses and is on now's calendar date.
IsDueToday(task, nowH) ==
    IF task.due_date.kind = "none" THEN FALSE
    ELSE IF task.due_date.kind = "bad" THEN FALSE
    ELSE DateOf(task.due_date.h) = DateOf(nowH)

\* A mutant for the checks: the week test with the last day left out.
IsDueThisWeekExclusive(task, nowH) ==
    IF task.due_date.kind # "at" THEN FALSE
    ELSE LET days_until == DaysBetween(task.due_date.h, nowH)
         IN  0 <= days_until /\ days_until < 7

\* _is_due_this_week: 0 <= (due_date - now).days <= 7.
IsDueThisWeek(task, nowH) ==
    IF task.due_date.kind = "none" THEN FALSE
    ELSE IF task.due_date.kind = "bad" THEN FALSE
    ELSE LET days_until == DaysBetween(task.due_date.h, nowH)
         IN  0 <= days_until /\ days_until <= 7

\* analysis.get("tags", [])
TagsOf(analysis) ==
    IF analysis.tags.kind = "missing" THEN <<>> ELSE analysis.tags.l

EmptyBuckets == [today |-> <<>>, this_week |-> <<>>, later |-> <<>>, waiting |-> <<>>]

\* A mutant for the checks: the waiting test as an "if" of its own, not an "elif".
PlaceItemWaitingNotElif(buckets, it, nowH) ==
    LET first ==
            IF it.priority_score >= 8000 \/ IsDueToday(it.task, nowH)
            THEN [buckets EXCEPT !.today = Append(@, it)]
            ELSE IF it.priority_score >= 6000 \/ IsDueThisWeek(it.task, nowH)
            THEN [buckets EXCEPT !.this_week = Append(@, it)]
            ELSE buckets
    IN  IF "waiting" \in Range(TagsOf(it.analysis))
           \/ "blocked" \in Range(TagsOf(it.analysis))
        THEN [first EXCEPT !.waiting = Append(@, it)]
        ELSE [first EXCEPT !.later = Append(@, it)]

\* The body of the loop of categorize_by_timeframe: one item, one append.
PlaceItem(buckets, it, nowH) ==
    IF it.priority_score >= 8000 \/ IsDueToday(it.task, nowH)
    THEN [buckets EXCEPT !.today = Append(@, it)]
    ELSE IF it.priority_score >= 6000 \/ IsDueThisWeek(it.task, nowH)
    THEN [buckets EXCEPT !.this_week = Append(@, it)]
    ELSE IF "waiting" \in Range(TagsOf(it.analysis))
            \/ "blocked" \in Range(TagsOf(it.analysis))
    THEN [buckets EXCEPT !.waiting = Append(@, it)]
    ELSE [buckets EXCEPT !.later = Append(@, it)]

\* categorize_by_timeframe: the loop over ranked_tasks, in order.
RECURSIVE CategorizeFrom(_, _, _, _)
CategorizeFrom(buckets, ranked, k, nowH) ==
    IF k > Len(ranked) THEN buckets
    ELSE CategorizeFrom(PlaceItem(buckets, ranked[k], nowH), ranked, k + 1, nowH)

CategorizeByTimeframe(ranked, nowH) == CategorizeFrom(EmptyBuckets, ranked, 1, nowH)

\* The inputs of the categorizer's specification.  Day 100 is today (hours
\* 2400..2423); the clock is 09:00 or 23:00.
CatNows == {2409, 2423}
CatScores == {3000, 4500, 5999, 6000, 7999, 8000, 8500}
CatDueDates ==
    {NoDate, BadDate} \cup
    {At(h) : h \in {2352, 2400, 2420, 2424, 2433, 2568, 2592, 2601, 2616, 2880}}
CatTags ==
    {Missing} \cup
    {[kind |-> "list", l |-> l] :
        l \in {<<>>, <<"waiting">>, <<"blocked">>, <<"untagged">>,
               <<"follow-up", "waiting">>}}

RankedItem(id, score, due, tags) ==
    [task |-> [id |-> id, due_date |-> due],
     analysis |-> [tags |-> tags],
     priority_score |-> score]

TagList(l) == [kind |-> "list", l |-> l]

\* The items of the lists of several tasks: A, B and C of the end-to-end scenario
\* (with the clock at 09:00: due tomorrow, due in 20 days, no due date), a
\* waiting-tagged item of score 60, a blocked item due later today, a blocked item
\* whose due date does not parse.
CoreItems(id) ==
    {RankedItem(id, 8500, At(2433), TagList(<<>>)),
     RankedItem(id, 4500, At(2889), TagList(<<>>)),
     RankedItem(id, 3000, NoDate, TagList(<<"waiting">>)),
     RankedItem(id, 6000, NoDate, TagList(<<"waiting">>)),
     RankedItem(id, 3000, At(2420), TagList(<<"blocked">>)),
     RankedItem(id, 4500, BadDate, TagList(<<"blocked">>))}

MaxRanked == 3

\* The lists rank_tasks can return: task ids distinct, scores in descending order.
RECURSIVE RankedLists(_)
RankedLists(n) ==
    IF n = 0 THEN {<<>>}
    ELSE LET shorter == RankedLists(n - 1)
         IN  shorter \cup
             {Append(l, it) : l \in {x \in shorter : Len(x) = n - 1},
                              it \in CoreItems(n)}

IsRanked(l) ==
    \A i \in 1..(Len(l) - 1) : l[i].priority_score >= l[i + 1].priority_score

InitCat ==
    /\ CacheIdle
    /\ ScoreIdle
    /\ NormIdle
    /\ DedupIdle
    /\ MainIdle
    /\ RestIdle
    /\ clockH \in CatNows
    /\ \/ \E sc \in CatScores, d \in CatDueDates, t \in CatTags :
             ranked_tasks = <<RankedItem(1, sc, d, t)>>
       \/ /\ ranked_tasks \in RankedLists(MaxRanked)
          /\ IsRanked(ranked_tasks)
    /\ categorized = Unused

Categorize ==
    /\ categorized = Unused
    /\ categorized' = CategorizeByTimeframe(ranked_tasks, clockH)
    /\ UNCHANGED <<clockH, ranked_tasks, notCat>>

NextCat == Categorize

SpecCat == InitCat /\ [][NextCat]_vars

BucketNames == {"today", "this_week", "waiting", "later"}

\* How often an item occurs in a bucket.
Occurrences(bucket, it) == Cardinality({k \in 1..Len(bucket) : bucket[k] = it})

\* C5: every item of the ranked list is in exactly one bucket, once, and the
\* buckets hold nothing but the items of the list.
C5_BucketsPartitionInput ==
    categorized # Unused =>
        /\ \A i \in 1..Len(ranked_tasks) :
              /\ Cardinality({b \in BucketNames :
                     ranked_tasks[i] \in Range(categorized[b])}) = 1
              /\ \A b \in BucketNames :
                     Occurrences(categorized[b], ranked_tasks[i]) <= 1
        /\ \A b \in BucketNames : Range(categorized[b]) \subseteq Range(ranked_tasks)
        /\ Len(categorized.today) + Len(categorized.this_week)
             + Len(categorized.waiting) + Len(categorized.later) = Len(ranked_tasks)

\* A list of three items that went to three different buckets.
C5_Witness ==
    /\ categorized # Unused
    /\ Len(ranked_tasks) = 3
    /\ Cardinality({b \in BucketNames : categorized[b] # <<>>}) = 3

\* The rules of the claim, on the due moment itself: due on today's calendar
\* date; due at least 0 and at most 7 whole days from now.
DueOnTodaysDate(it) ==
    it.task.due_date.kind = "at" /\ it.task.due_date.h \div 24 = clockH \div 24

DueWithinSevenDays(it) ==
    /\ it.task.due_date.kind = "at"
    /\ it.task.due_date.h >= clockH
    /\ it.task.due_date.h < clockH + 8 * 24

HasWaitingTag(it) ==
    /\ it.analysis.tags.kind = "list"
    /\ \E k \in 1..Len(it.analysis.tags.l) : it.analysis.tags.l[k] \in {"waiting", "blocked"}

RuleBucket(it) ==
    CASE it.priority_score >= 8000 \/ DueOnTodaysDate(it) -> "today"
      [] ~(it.priority_score >= 8000 \/ DueOnTodaysDate(it))
           /\ (it.priority_score >= 6000 \/ DueWithinSevenDays(it)) -> "this_week"
      [] ~(it.priority_score >= 8000 \/ DueOnTodaysDate(it))
           /\ ~(it.priority_score >= 6000 \/ DueWithinSevenDays(it))
           /\ HasWaitingTag(it) -> "waiting"
      [] OTHER -> "later"

\* C6: each item is in the bucket of the first rule it matches, in the order
\* today (score >= 80 or due on today's date), this_week (score >= 60 or due
\* within 7 days), waiting (tagged waiting or blocked), later; an item of score
\* >= 60 is never in waiting; and A (85, due tomorrow), B (45, due in 20 days),
\* C (30, waiting, no due date) go to today, later and waiting.
C6_FirstMatchingRuleDecides ==
    categorized # Unused =>
        /\ \A i \in 1..Len(ranked_tasks) :
              ranked_tasks[i] \in Range(categorized[RuleBucket(ranked_tasks[i])])
        /\ \A k \in 1..Len(categorized.waiting) :
              categorized.waiting[k].priority_score < 6000
        /\ (/\ clockH = 2409
            /\ ranked_tasks = <<RankedItem(1, 8500, At(2433), TagList(<<>>)),
                                RankedItem(2, 4500, At(2889), TagList(<<>>)),
                                RankedItem(3, 3000, NoDate, TagList(<<"waiting">>))>>)
           => /\ categorized.today = <<ranked_tasks[1]>>
              /\ categorized.later = <<ranked_tasks[2]>>
              /\ categorized.waiting = <<ranked_tasks[3]>>
              /\ categorized.this_week = <<>>

\* The scenario A, B, C, categorized.
C6_Witness ==
    /\ categorized # Unused
    /\ clockH = 2409
    /\ Len(ranked_tasks) = 3
    /\ ranked_tasks[1].priority_score = 8500 /\ ranked_tasks[1].task.due_date = At(2433)
    /\ ranked_tasks[2].priority_score = 4500 /\ ranked_tasks[2].task.due_date = At(2889)
    /\ ranked_tasks[3].priority_score = 3000 /\ HasWaitingTag(ranked_tasks[3])
    /\ categorized.waiting # <<>>

\* An item due 7 whole days from now, of a score below 60, is in this_week.
DueInSevenDaysIsThisWeek ==
    /\ categorized # Unused
    /\ Len(ranked_tasks) = 1
    /\ ranked_tasks[1].task.due_date = At(2592)
    /\ categorized.this_week # <<>>

--------------------------------------------------------------------------
(* URL normalizer                                                          *)
(*                                                                         *)
(* A string is a list of tokens: the characters that urllib gives a        *)
(* meaning (":", "/", "?", "#", "&", "=", ";", "+", " ", a percent escape) *)
(* each a token, and each run of other characters ("https", "www.",        *)
(* "x.com", "utm_source") one token.                                       *)

Concat(a, b) == a \o b

\* The first index of tok in s from index from on, or 0.
RECURSIVE FindFrom(_, _, _)
FindFrom(s, toks, from) ==
    IF from > Len(s) THEN 0
    ELSE IF s[from] \in toks THEN from
    ELSE FindFrom(s, toks, from + 1)

Find(s, tok) == FindFrom(s, {tok}, 1)

\* The last index of tok in s, or 0.
RECURSIVE RFind(_, _, _)
RFind(s, tok, k) ==
    IF k = 0 THEN 0 ELSE IF s[k] = tok THEN k ELSE RFind(s, tok, k - 1)

Before(s, i) == SubSeq(s, 1, i - 1)
After(s, i)  == SubSeq(s, i + 1, Len(s))

\* str.lower()
LowerStr(s) == [i \in 1..Len(s) |-> Lower(s[i])]

\* str.strip(): leading and trailing whitespace removed.
RECURSIVE LStrip(_)
LStrip(s) == IF s # <<>> /\ Head(s) = " " THEN LStrip(Tail(s)) ELSE s

RECURSIVE RStripTok(_, _)
RStripTok(s, tok) ==
    IF s # <<>> /\ s[Len(s)] = tok THEN RStripTok(Before(s, Len(s)), tok) ELSE s

Strip(s) == RStripTok(LStrip(s), " ")

\* The tokens made only of scheme characters (letters, digits, "+", "-", "."),
\* and those that start with a letter.
SchemeCharTokens ==
    {"http", "https", "www.", "x.com", "a", "b", "c", "id", "ref", "q", "y",
     "1", "2", "3", "+", "frag"}
LetterFirstTokens ==
    {"http", "https", "www.", "x.com", "a", "b", "c", "id", "ref", "q", "y",
     "utm_source", "utm_x", "frag"}

\* urllib.parse.uses_params, as far as the model's schemes go.
UsesParams == {<<>>, <<"http">>, <<"https">>}

\* _splitparams: the params are cut from the last path segment only.
SplitParams(path) ==
    LET slash == RFind(path, "/", Len(path))
        semi  == IF slash > 0 THEN FindFrom(path, {";"}, slash) ELSE Find(path, ";")
    IN  IF semi = 0 THEN [path |-> path, params |-> <<>>]
        ELSE [path |-> Before(path, semi), params |-> After(path, semi)]

\* urlparse, last step: the params are cut from the path of a scheme that uses them.
ParsePath(scheme, netloc, rest, query, fragment) ==
    LET split == IF scheme \in UsesParams /\ Find(rest, ";") > 0
                 THEN SplitParams(rest)
                 ELSE [path |-> rest, params |-> <<>>]
    IN  [scheme |-> scheme, netloc |-> netloc, path |-> split.path,
         params |-> split.params, query |-> query, fragment |-> fragment]

\* urlsplit: the query is what follows the first "?".
ParseQuery(scheme, netloc, rest, fragment) ==
    IF Find(rest, "?") = 0
    THEN ParsePath(scheme, netloc, rest, <<>>, fragment)
    ELSE ParsePath(scheme, netloc, Before(rest, Find(rest, "?")),
                   After(rest, Find(rest, "?")), fragment)

\* urlsplit: the fragment is what follows the first "#".
ParseFragment(scheme, netloc, rest) ==
    IF Find(rest, "#") = 0
    THEN ParseQuery(scheme, netloc, rest, <<>>)
    ELSE ParseQuery(scheme, netloc, Before(rest, Find(rest, "#")),
                    After(rest, Find(rest, "#")))

\* urlsplit: after "//" the netloc runs to the first "/", "?" or "#".
ParseNetloc(scheme, rest) ==
    IF ~(Len(rest) >= 2 /\ rest[1] = "/" /\ rest[2] = "/")
    THEN ParseFragment(scheme, <<>>, rest)
    ELSE IF FindFrom(rest, {"/", "?", "#"}, 3) = 0
    THEN ParseFragment(scheme, SubSeq(rest, 3, Len(rest)), <<>>)
    ELSE ParseFragment(scheme,
                       SubSeq(rest, 3, FindFrom(rest, {"/", "?", "#"}, 3) - 1),
                       SubSeq(rest, FindFrom(rest, {"/", "?", "#"}, 3), Len(rest)))

\* urlsplit: the scheme is what precedes the first ":" when it is made of scheme
\* characters and starts with a letter.
ParseScheme(s, colon) ==
    IF /\ colon > 1
       /\ s[1] \in LetterFirstTokens
       /\ \A k \in 1..(colon - 1) : s[k] \in SchemeCharTokens
    THEN ParseNetloc(Before(s, colon), After(s, colon))
    ELSE ParseNetloc(<<>>, s)

\* urlparse(url): scheme, netloc, path, params, query, fragment.
UrlParse(s) == ParseScheme(s, Find(s, ":"))

\* urlsplit raises ValueError("Invalid IPv6 URL") for a netloc with one of "["
\* and "]" and not the other, and _checknetloc raises ValueError for a netloc
\* with a character whose NFKC form holds one of "/?#@:" (U+2100 is "a/c",
\* U+FF0F is "/").
ValueError == <<"ValueError">>
NfkcUnsafeTokens == {"U+2100", "U+FF0F"}

NetlocInvalid(netloc) ==
    \/ ("[" \in Range(netloc)) # ("]" \in Range(netloc))
    \/ \E k \in 1..Len(netloc) : netloc[k] \in NfkcUnsafeTokens

UrlParseRaises(s) == NetlocInvalid(UrlParse(s).netloc)

\* str.split(sep): the pieces between the separators.
RECURSIVE Split(_, _)
Split(s, sep) ==
    LET i == Find(s, sep)
    IN  IF i = 0 THEN <<s>> ELSE <<Before(s, i)>> \o Split(After(s, i), sep)

\* unquote(x.replace("+", " ")) on one token.
UnquoteToken(t) ==
    CASE t = "+" -> " "
      [] t = "%2f" -> "/"
      [] t = "%3d" -> "="
      [] t = "%3f" -> "?"
      [] t = "%3a" -> ":"
      [] t = "%3b" -> ";"
      [] t = "%2b" -> "+"
      [] t = "%2F" -> "/"
      [] t = "%3D" -> "="
      [] t = "%3F" -> "?"
      [] t = "%3A" -> ":"
      [] t = "%3B" -> ";"
      [] t = "%2B" -> "+"
      [] OTHER -> t

Unquote(s) == [i \in 1..Len(s) |-> UnquoteToken(s[i])]

\* quote_plus on one token: unreserved characters stay, a space becomes "+".
QuoteToken(t) ==
    CASE t = " " -> "+"
      [] t = "/" -> "%2F"
      [] t = "=" -> "%3D"
      [] t = "?" -> "%3F"
      [] t = ":" -> "%3A"
      [] t = ";" -> "%3B"
      [] t = "+" -> "%2B"
      [] OTHER -> t

QuotePlus(s) == [i \in 1..Len(s) |-> QuoteToken(s[i])]

\* parse_qsl: the (name, value) pairs of a query, blank values dropped.
RECURSIVE PairsOf(_)
PairsOf(chunks) ==
    IF chunks = <<>> THEN <<>>
    ELSE LET nv == Head(chunks)
             eq == Find(nv, "=")
         IN  IF nv = <<>> \/ eq = 0 \/ After(nv, eq) = <<>>
             THEN PairsOf(Tail(chunks))
             ELSE <<[name |-> Unquote(Before(nv, eq)),
                     value |-> Unquote(After(nv, eq))]>> \o PairsOf(Tail(chunks))

ParseQsl(query) == IF query = <<>> THEN <<>> ELSE PairsOf(Split(query, "&"))

\* parse_qs: a dict from each name, in the order of its first occurrence, to the
\* list of its values.
RECURSIVE GroupPairs(_, _)
GroupPairs(pairs, dict) ==
    IF pairs = <<>> THEN dict
    ELSE LET p == Head(pairs)
             at == {k \in 1..Len(dict) : dict[k].name = p.name}
         IN  IF at = {}
             THEN GroupPairs(Tail(pairs),
                             Append(dict, [name |-> p.name, values |-> <<p.value>>]))
             ELSE GroupPairs(Tail(pairs),
                             [k \in 1..Len(dict) |->
                                 IF k \in at
                                 THEN [name |-> dict[k].name,
                                       values |-> Append(dict[k].values, p.value)]
                                 ELSE dict[k]])

ParseQs(query) == GroupPairs(ParseQsl(query), <<>>)

TrackingParams ==
    {<<"utm_source">>, <<"utm_medium">>, <<"utm_campaign">>, <<"utm_term">>,
     <<"utm_content">>, <<"fbclid">>, <<"gclid">>, <<"ref">>, <<"s">>, <<"t">>,
     <<"si">>, <<"igshid">>}

\* {k: v for k, v in query_params.items() if k.lower() not in tracking_params}
RECURSIVE FilterParams(_)
FilterParams(dict) ==
    IF dict = <<>> THEN <<>>
    ELSE IF LowerStr(Head(dict).name) \in TrackingParams THEN FilterParams(Tail(dict))
    ELSE <<Head(dict)>> \o FilterParams(Tail(dict))

\* urlencode(dict, doseq=True): name=value for each value of each name, "&" between.
RECURSIVE EncodeValues(_, _)
EncodeValues(name, values) ==
    IF values = <<>> THEN <<>>
    ELSE <<QuotePlus(name) \o <<"=">> \o QuotePlus(Head(values))>>
            \o EncodeValues(name, Tail(values))

RECURSIVE EncodeItems(_)
EncodeItems(dict) ==
    IF dict = <<>> THEN <<>>
    ELSE EncodeValues(Head(dict).name, Head(dict).values) \o EncodeItems(Tail(dict))

RECURSIVE Join(_, _)
Join(pieces, sep) ==
    IF pieces = <<>> THEN <<>>
    ELSE IF Len(pieces) = 1 THEN pieces[1]
    ELSE pieces[1] \o <<sep>> \o Join(Tail(pieces), sep)

UrlEncode(dict) == Join(EncodeItems(dict), "&")

\* if netloc.startswith('www.'): netloc = netloc[4:]
StripWww(netloc) ==
    IF netloc # <<>> /\ Head(netloc) = "www." THEN Tail(netloc) ELSE netloc

\* clean_query = urlencode(filtered_params, doseq=True) if filtered_params else ''
CleanQuery(filtered_params) ==
    IF filtered_params # <<>> THEN UrlEncode(filtered_params) ELSE <<>>

\* The two return statements of normalize_url.
Rebuild(scheme, netloc, path, clean_query) ==
    IF clean_query # <<>>
    THEN scheme \o <<":", "/", "/">> \o netloc \o path \o <<"?">> \o clean_query
    ELSE scheme \o <<":", "/", "/">> \o netloc \o path

NormalizeParsed(parsed) ==
    Rebuild(parsed.scheme,
            StripWww(parsed.netloc),
            RStripTok(parsed.path, "/"),
            CleanQuery(FilterParams(ParseQs(parsed.query))))

\* normalize_url: it has no try, so the ValueError of urlparse leaves it.
NormalizeUrl(u) ==
    IF UrlParseRaises(Strip(LowerStr(u))) THEN ValueError
    ELSE NormalizeParsed(UrlParse(Strip(LowerStr(u))))

\* The inputs of the normalizer's specification: strings that the URL pattern of
\* extract_urls_from_task matches (http:// or https://, then no whitespace).
UrlSchemes == {<<"https", ":", "/", "/">>, <<"http", ":", "/", "/">>}
UrlHosts ==
    {<<"x.com">>, <<"www.", "x.com">>, <<"www.", "www.", "x.com">>, <<"WWW.", "X.COM">>}
UrlPaths ==
    {<<>>, <<"/">>, <<"/", "a">>, <<"/", "a", "/">>, <<"/", "a", "/", "/">>,
     <<"/", "A", "/", "b">>, <<"/", "a", ";", "b">>, <<"/", "a", ";", "b", "/">>}
UrlFragments == {<<>>, <<"#", "frag">>, <<"#", "/">>}
UrlParams ==
    {<<"id", "=", "1">>, <<"utm_source", "=", "y">>, <<"REF", "=", "2">>,
     <<"a", "=", "1">>, <<"a", "=", "3">>, <<"b", "=", "2">>, <<"utm_x", "=", "1">>,
     <<"id", "=">>, <<"q", "=", "a", "/", "b">>, <<"q", "=", "a", "+", "%2F">>}
MaxParams == 2

RECURSIVE ParamLists(_)
ParamLists(n) ==
    IF n = 0 THEN {<<>>}
    ELSE LET shorter == ParamLists(n - 1)
         IN  shorter \cup {Append(l, p) : l \in {x \in shorter : Len(x) = n - 1},
                                          p \in UrlParams}

QueryOf(params) == IF params = <<>> THEN <<>> ELSE <<"?">> \o Join(params, "&")

\* Malformed inputs: the first two are matched by the URL pattern of
\* extract_urls_from_task (which excludes whitespace, brackets and quotes but
\* no non-ASCII character), the others are strings a caller can pass.
MalformedUrls ==
    {<<"https", ":", "/", "/", "x", "U+2100", ".com", "/", "a">>,
     <<"http", ":", "/", "/", "x.com", "U+FF0F", "/", "A", "?", "id", "=", "1">>,
     <<"http", ":", "/", "/", "[", "x.com", "/", "a">>,
     <<"not", " ", "a", " ", "url">>,
     <<" ", "NOT", " ", "a", " ", "url", " ">>,
     <<>>}

InitNorm ==
    /\ CacheIdle
    /\ clockH = 0
    /\ ScoreIdle
    /\ CatIdle
    /\ DedupIdle
    /\ MainIdle
    /\ RestIdle
    /\ \/ \E sch \in UrlSchemes, h \in UrlHosts, p \in UrlPaths, f \in UrlFragments,
            q \in {<<>>, <<"?">>, <<"?", "id", "=", "1">>,
                   <<"?", "utm_source", "=", "y", "&", "id", "=", "1">>,
                   <<"?", "a", "=", "1", "&", "b", "=", "2", "&", "a", "=", "3">>} :
             url = sch \o h \o p \o q \o f
       \/ \E sch \in UrlSchemes, p \in {<<"/", "a">>, <<"/", "a", "/">>},
            l \in ParamLists(MaxParams) :
             url = sch \o <<"www.", "x.com">> \o p \o QueryOf(l)
       \/ url \in MalformedUrls
    /\ normalized = <<>>

Normalize ==
    /\ normalized = <<>>
    /\ normalized' = <<NormalizeUrl(url)>>
    /\ UNCHANGED <<url, notNorm>>

NormalizeAgain ==
    /\ Len(normalized) = 1
    /\ normalized[1] # ValueError
    /\ normalized' = Append(normalized, NormalizeUrl(normalized[1]))
    /\ UNCHANGED <<url, notNorm>>

NextNorm == Normalize \/ NormalizeAgain

SpecNorm == InitNorm /\ [][NextNorm]_vars

\* C7: normalizing a normalized URL changes nothing.
C7_NormalizeIdempotent ==
    Len(normalized) = 2 => normalized[2] = normalized[1]

\* The same for the URLs whose host has at most one leading "www." and whose
\* path has no ";" before a trailing slash.
IdempotentOnPlainUrls ==
    (/\ Len(normalized) = 2
     /\ url \notin MalformedUrls
     /\ ~(\E k \in 1..(Len(url) - 1) : Lower(url[k]) = "www." /\ Lower(url[k + 1]) = "www.")
     /\ Find(url, ";") = 0)
    => normalized[2] = normalized[1]

\* C17: normalize_url never raises; for every input it returns a string, and
\* for an input that cannot be parsed as a URL (urlparse raises, or finds no
\* scheme and no host) the result is the lowercased, trimmed input.
Unparseable(u) ==
    \/ UrlParseRaises(Strip(LowerStr(u)))
    \/ /\ UrlParse(Strip(LowerStr(u))).scheme = <<>>
       /\ UrlParse(Strip(LowerStr(u))).netloc = <<>>

C17_NormalizeNeverRaises ==
    Len(normalized) >= 1 =>
        /\ normalized[1] # ValueError
        /\ Unparseable(url) => normalized[1] = Strip(LowerStr(url))

\* What holds: the ValueError comes only from a host with an unbalanced bracket
\* or an NFKC-unsafe character, and a string with no scheme and no host comes
\* back lowercased and trimmed behind "://".
RaisesOnlyOnInvalidHost ==
    Len(normalized) >= 1 =>
        /\ normalized[1] = ValueError
              => \E k \in 1..Len(url) : url[k] \in NfkcUnsafeTokens \cup {"[", "]"}
        /\ (Unparseable(url) /\ normalized[1] # ValueError)
              => normalized[1] = <<":", "/", "/">> \o Strip(LowerStr(url))

\* A URL of the form scheme://host..., with "www." put before its host, with
\* "/" put behind its path, and with the other scheme.
WithWww(u) == SubSeq(u, 1, 4) \o <<"www.">> \o SubSeq(u, 5, Len(u))

WithSlash(u) ==
    IF FindFrom(u, {"?", "#"}, 5) = 0 THEN Append(u, "/")
    ELSE SubSeq(u, 1, FindFrom(u, {"?", "#"}, 5) - 1) \o <<"/">>
             \o SubSeq(u, FindFrom(u, {"?", "#"}, 5), Len(u))

OtherScheme(u) == <<IF u[1] = "https" THEN "http" ELSE "https">> \o Tail(u)

\* C24: two URLs that differ only by a leading "www." on the host, by a
\* trailing "/" on the path, or by both, normalize to the same string, and two
\* URLs that differ in the scheme (http, https) do not.
C24_WwwAndSlashAreIgnored ==
    (Len(normalized) >= 1 /\ url \notin MalformedUrls) =>
        /\ NormalizeUrl(WithWww(url)) = normalized[1]
        /\ NormalizeUrl(WithSlash(url)) = normalized[1]
        /\ NormalizeUrl(WithWww(WithSlash(url))) = normalized[1]
        /\ NormalizeUrl(OtherScheme(url)) # normalized[1]

\* What holds: the same for a host that does not start with "www." already
\* and a path without ";", and the scheme part for every URL.
WwwAndSlashIgnoredOnPlainUrls ==
    (/\ Len(normalized) >= 1
     /\ url \notin MalformedUrls
     /\ Lower(url[5]) # "www."
     /\ Find(url, ";") = 0) =>
        /\ NormalizeUrl(WithWww(url)) = normalized[1]
        /\ NormalizeUrl(WithSlash(url)) = normalized[1]
        /\ NormalizeUrl(WithWww(WithSlash(url))) = normalized[1]

SchemeIsKept ==
    (Len(normalized) >= 1 /\ url \notin MalformedUrls) =>
        NormalizeUrl(OtherScheme(url)) # normalized[1]

\* The parameters of a URL's query, in their order: name and value tokens.
RECURSIVE NonEmpty(_)
NonEmpty(pieces) ==
    IF pieces = <<>> THEN <<>>
    ELSE IF Head(pieces) = <<>> THEN NonEmpty(Tail(pieces))
    ELSE <<Head(pieces)>> \o NonEmpty(Tail(pieces))

ParamSeq(u) ==
    LET q0 == IF Find(u, "?") = 0 THEN <<>> ELSE After(u, Find(u, "?"))
        q  == IF Find(q0, "#") = 0 THEN q0 ELSE Before(q0, Find(q0, "#"))
    IN  NonEmpty(Split(LowerStr(q), "&"))

\* a is b with some members left out.
RECURSIVE IsSubsequence(_, _)
IsSubsequence(a, b) ==
    IF a = <<>> THEN TRUE
    ELSE IF b = <<>> THEN FALSE
    ELSE IF Head(a)[1] = Head(b)[1] THEN IsSubsequence(Tail(a), Tail(b))
    ELSE IsSubsequence(a, Tail(b))

\* C23: the parameters that survive normalize_url are in the relative order
\* they had in the input, also when a name occurs again after another name.
C23_SurvivorsKeepOrder ==
    (Len(normalized) >= 1 /\ normalized[1] # ValueError)
        => IsSubsequence(ParamSeq(normalized[1]), ParamSeq(url))

\* What holds: the order is kept when no name occurs again after another name.
NamesRepeatApart(params) ==
    \E i, j, k \in 1..Len(params) :
        /\ i < j /\ j < k
        /\ params[i][1] = params[k][1]
        /\ params[j][1] # params[i][1]

OrderKeptWithoutRepeats ==
    (/\ Len(normalized) >= 1
     /\ normalized[1] # ValueError
     /\ ~NamesRepeatApart(ParamSeq(url)))
        => IsSubsequence(ParamSeq(normalized[1]), ParamSeq(url))

\* The names of the parameters of a URL's query: the query runs from the first
\* "?" to the "#" that follows, and "&" separates its parameters.
QueryPart(u) ==
    LET q == IF Find(u, "?") = 0 THEN <<>> ELSE After(u, Find(u, "?"))
    IN  IF Find(q, "#") = 0 THEN q ELSE Before(q, Find(q, "#"))

ParamNames(u) == {Lower(Head(p)) : p \in {x \in Range(Split(QueryPart(u), "&")) : x # <<>>}}

\* The parameter names the specification calls tracking parameters: every
\* utm_* name and fbclid, gclid, ref, s, t, si, igshid.
UtmNames ==
    {"utm_source", "utm_medium", "utm_campaign", "utm_term", "utm_content", "utm_x"}
SpecDenylist == UtmNames \cup {"fbclid", "gclid", "ref", "s", "t", "si", "igshid"}

\* C16: normalize_url removes every tracking parameter (every utm_* parameter,
\* fbclid, gclid, ref, s, t, si, igshid), keeps every other parameter, and
\* writes no "?" when no parameter survives.
C16_TrackingParamsRemoved ==
    Len(normalized) >= 1 =>
        /\ \A n \in ParamNames(normalized[1]) : n \notin SpecDenylist
        /\ \A n \in ParamNames(url) : n \notin SpecDenylist => n \in ParamNames(normalized[1])
        /\ ParamNames(normalized[1]) = {} => Find(normalized[1], "?") = 0

\* What the code does remove: the twelve names of its own list, and the "?" of
\* an emptied query.
ListedParamsRemoved ==
    Len(normalized) >= 1 =>
        /\ \A n \in ParamNames(normalized[1]) : <<n>> \notin TrackingParams
        /\ ParamNames(normalized[1]) = {} => Find(normalized[1], "?") = 0

--------------------------------------------------------------------------
(* Duplicate resolver                                                      *)
(*                                                                         *)
(* delete_duplicates (find_duplicates.py) and remove_duplicate_urls        *)
(* (main.py) build the same groups and sort them the same way; they differ *)
(* in what they count.  A created_at is None or a string, compared as      *)
(* Python compares strings: character by character.                        *)

NoCreated    == [kind |-> "none"]
Created(chs) == [kind |-> "str", chars |-> chs]
IsoDay(d)    == Created(<<"2", "0", "2", "4", "-", "0", "1", "-", "0", d>>)

\* ord(c) for the characters of the model's created_at strings.
CharCode(c) ==
    CASE c = "-" -> 45 [] c = "/" -> 47
      [] c = "0" -> 48 [] c = "1" -> 49 [] c = "2" -> 50 [] c = "3" -> 51
      [] c = "4" -> 52 [] c = "a" -> 97 [] c = "n" -> 110

\* a < b for two strings.
RECURSIVE StrLess(_, _)
StrLess(a, b) ==
    IF b = <<>> THEN FALSE
    ELSE IF a = <<>> THEN TRUE
    ELSE IF CharCode(Head(a)) # CharCode(Head(b))
    THEN CharCode(Head(a)) < CharCode(Head(b))
    ELSE StrLess(Tail(a), Tail(b))

\* key=lambda x: x['task'].get('created_at', '') or ''
SortKey(it) ==
    IF it.task.created_at.kind = "none" THEN <<>> ELSE it.task.created_at.chars

\* A mutant for the checks: the insertion of an ascending sort.
RECURSIVE InsertAscending(_, _)
InsertAscending(x, sorted) ==
    IF sorted = <<>> THEN <<x>>
    ELSE IF StrLess(SortKey(x), SortKey(Head(sorted))) THEN <<x>> \o sorted
    ELSE <<Head(sorted)>> \o InsertAscending(x, Tail(sorted))

\* A mutant for the checks: a descending sort that puts an item before its equals.
RECURSIVE InsertDescendingTiesFirst(_, _)
InsertDescendingTiesFirst(x, sorted) ==
    IF sorted = <<>> THEN <<x>>
    ELSE IF ~StrLess(SortKey(x), SortKey(Head(sorted))) THEN <<x>> \o sorted
    ELSE <<Head(sorted)>> \o InsertDescendingTiesFirst(x, Tail(sorted))

\* sorted(..., reverse=True) is stable: an item goes behind those of a greater
\* or equal key that came before it.
RECURSIVE InsertDescending(_, _)
InsertDescending(x, sorted) ==
    IF sorted = <<>> THEN <<x>>
    ELSE IF StrLess(SortKey(Head(sorted)), SortKey(x)) THEN <<x>> \o sorted
    ELSE <<Head(sorted)>> \o InsertDescending(x, Tail(sorted))

RECURSIVE SortedItems(_)
SortedItems(items) ==
    IF items = <<>> THEN <<>>
    ELSE InsertDescending(items[Len(items)], SortedItems(Before(items, Len(items))))

\* url_to_tasks[normalized].append(...) on a dict kept in insertion order.
AppendToGroup(groups, normalized_url, entry) ==
    IF \E k \in 1..Len(groups) : groups[k].url = normalized_url
    THEN [k \in 1..Len(groups) |->
             IF groups[k].url = normalized_url
             THEN [url |-> groups[k].url, items |-> Append(groups[k].items, entry)]
             ELSE groups[k]]
    ELSE Append(groups, [url |-> normalized_url, items |-> <<entry>>])

\* The inner loop: for url in task.get('urls', []).
RECURSIVE AddUrls(_, _, _)
AddUrls(groups, task, urls) ==
    IF urls = <<>> THEN groups
    ELSE AddUrls(AppendToGroup(groups, NormalizeUrl(Head(urls)),
                               [task |-> task, original_url |-> Head(urls)]),
                 task, Tail(urls))

\* The outer loop: for task in tasks.
RECURSIVE AddTasks(_, _)
AddTasks(groups, tasks) ==
    IF tasks = <<>> THEN groups
    ELSE AddTasks(AddUrls(groups, Head(tasks), Head(tasks).urls), Tail(tasks))

\* The groups of more than one item, in the dict's order.
RECURSIVE OnlyDuplicates(_)
OnlyDuplicates(groups) ==
    IF groups = <<>> THEN <<>>
    ELSE IF Len(Head(groups).items) > 1
    THEN <<Head(groups)>> \o OnlyDuplicates(Tail(groups))
    ELSE OnlyDuplicates(Tail(groups))

\* find_url_duplicates, and the first lines of remove_duplicate_urls.
FindUrlDuplicates(tasks) == OnlyDuplicates(AddTasks(<<>>, tasks))

\* keeper = sorted_items[0]; to_delete = sorted_items[1:]
Keeper(group)   == SortedItems(group.items)[1]
ToDelete(group) == Tail(SortedItems(group.items))

\* What delete_task can answer: True, False, or an exception; for a task the
\* service no longer holds, not True.
DeleteOutcomes(task_id) ==
    IF task_id \in remote THEN {"true", "false", "raise"} ELSE {"false", "raise"}

\* A mutant for the checks: only the deletions are counted.
CountedDeletionsOnly(st, outcome) ==
    IF outcome = "true" THEN [st EXCEPT !.deleted = @ + 1] ELSE st

\* The counters after one delete_task call.  delete_duplicates counts a False and
\* an exception as failed; remove_duplicate_urls counts only the deletions.
Counted(st, outcome) ==
    IF outcome = "true" THEN [st EXCEPT !.deleted = @ + 1]
    ELSE IF fn = "delete_duplicates" THEN [st EXCEPT !.failed = @ + 1]
    ELSE st

\* The position after (g, i): the next item to delete, the next group, or the end.
NextPos(g, i) ==
    IF i < Len(ToDelete(url_duplicates[g])) THEN [g |-> g, i |-> i + 1]
    ELSE [g |-> g + 1, i |-> 1]

\* The URLs of the tasks of the model.
UrlA    == <<"https", ":", "/", "/", "x.com", "/", "a">>
UrlAwww == <<"https", ":", "/", "/", "www.", "x.com", "/", "a", "/">>
UrlB    == <<"https", ":", "/", "/", "x.com", "/", "b">>

DedupCreated ==
    {NoCreated, Created(<<>>), IsoDay("1"), IsoDay("2"), IsoDay("3"),
     Created(<<"n", "/", "a">>)}
DedupUrlLists ==
    {<<>>, <<UrlA>>, <<UrlAwww>>, <<UrlB>>, <<UrlA, UrlB>>, <<UrlA, UrlAwww>>}

Task(id, created, urls) ==
    [id |-> id, list_id |-> "list", created_at |-> created, urls |-> urls]

MaxTasks == 3

\* Lists of n tasks with ids 1..n: either all on one page and any created_at, or
\* created on day 1, day 3, day 2, ... and any URLs.
RECURSIVE SameUrlTasks(_)
SameUrlTasks(n) ==
    IF n = 0 THEN {<<>>}
    ELSE {Append(l, Task(n, c, IF n % 2 = 1 THEN <<UrlA>> ELSE <<UrlAwww>>)) :
             l \in SameUrlTasks(n - 1), c \in DedupCreated}

DayOfIndex(n) == IF n % 3 = 1 THEN IsoDay("1") ELSE IF n % 3 = 2 THEN IsoDay("3")
                 ELSE IsoDay("2")

RECURSIVE DatedTasks(_)
DatedTasks(n) ==
    IF n = 0 THEN {<<>>}
    ELSE {Append(l, Task(n, DayOfIndex(n), u)) :
             l \in DatedTasks(n - 1), u \in DedupUrlLists}

InitDedup ==
    /\ CacheIdle
    /\ clockH = 0
    /\ ScoreIdle
    /\ CatIdle
    /\ NormIdle
    /\ MainIdle
    /\ RestIdle
    /\ \E n \in 2..MaxTasks : parsed_tasks \in SameUrlTasks(n) \cup DatedTasks(n)
    /\ \/ fn = "delete_duplicates" /\ dry_run \in BOOLEAN
       \/ fn = "remove_duplicate_urls" /\ dry_run = FALSE
    /\ remote = {parsed_tasks[k].id : k \in 1..Len(parsed_tasks)}
    /\ url_duplicates = <<>>
    /\ dd_pc = "start"
    /\ dd_pos = Unused
    /\ stats = [deleted |-> 0, failed |-> 0, skipped |-> 0]
    /\ attempts = <<>>

\* The groups are built; with none there is nothing to do.
DedupStart ==
    /\ dd_pc = "start"
    /\ url_duplicates' = FindUrlDuplicates(parsed_tasks)
    /\ dd_pc' = IF FindUrlDuplicates(parsed_tasks) = <<>> THEN "done" ELSE "loop"
    /\ dd_pos' = [g |-> 1, i |-> 1]
    /\ UNCHANGED <<fn, dry_run, parsed_tasks, remote, stats, attempts, notDedup>>

\* One pass of "for item in to_delete" in dry-run mode: counted, not deleted.
DedupSkip ==
    /\ dd_pc = "loop"
    /\ dry_run
    /\ stats' = [stats EXCEPT !.skipped = @ + 1]
    /\ dd_pos' = NextPos(dd_pos.g, dd_pos.i)
    /\ dd_pc' = IF NextPos(dd_pos.g, dd_pos.i).g > Len(url_duplicates)
                THEN "done" ELSE "loop"
    /\ UNCHANGED <<fn, dry_run, parsed_tasks, remote, url_duplicates, attempts, notDedup>>

\* One pass of "for item in to_delete" with a delete_task call: the try and both
\* of its ways out.
DedupDelete(outcome) ==
    /\ dd_pc = "loop"
    /\ ~dry_run
    /\ outcome \in DeleteOutcomes(ToDelete(url_duplicates[dd_pos.g])[dd_pos.i].task.id)
    /\ remote' = IF outcome = "true"
                 THEN remote \ {ToDelete(url_duplicates[dd_pos.g])[dd_pos.i].task.id}
                 ELSE remote
    /\ stats' = Counted(stats, outcome)
    /\ attempts' = Append(attempts,
                          [id |-> ToDelete(url_duplicates[dd_pos.g])[dd_pos.i].task.id,
                           outcome |-> outcome])
    /\ dd_pos' = NextPos(dd_pos.g, dd_pos.i)
    /\ dd_pc' = IF NextPos(dd_pos.g, dd_pos.i).g > Len(url_duplicates)
                THEN "done" ELSE "loop"
    /\ UNCHANGED <<fn, dry_run, parsed_tasks, url_duplicates, notDedup>>

NextDedup ==
    \/ DedupStart
    \/ DedupSkip
    \/ \E outcome \in {"true", "false", "raise"} : DedupDelete(outcome)

SpecDedup == InitDedup /\ [][NextDedup]_vars

\* The day a created_at string denotes, or 0 when it does not parse as a date.
ParsedDay(created) ==
    IF created.kind = "str" /\ Len(created.chars) = 10
       /\ SubSeq(created.chars, 1, 9) = <<"2", "0", "2", "4", "-", "0", "1", "-", "0">>
    THEN CharCode(created.chars[10]) - 48
    ELSE 0

\* C8: in every group the keeper has the newest created_at, and a member whose
\* created_at is missing or does not parse is not the keeper while another member
\* has a valid one.
C8_KeeperIsNewestValid ==
    \A g \in 1..Len(url_duplicates) :
        \A k \in 1..Len(url_duplicates[g].items) :
            ParsedDay(url_duplicates[g].items[k].task.created_at)
                <= ParsedDay(Keeper(url_duplicates[g]).task.created_at)

\* The same for the groups whose created_at values are all missing, empty or ISO
\* dates of one format: there the string order is the order of the dates.
KeeperIsNewestOnIsoDates ==
    \A g \in 1..Len(url_duplicates) :
        (\A k \in 1..Len(url_duplicates[g].items) :
            \/ url_duplicates[g].items[k].task.created_at.kind = "none"
            \/ url_duplicates[g].items[k].task.created_at.chars = <<>>
            \/ ParsedDay(url_duplicates[g].items[k].task.created_at) > 0)
        => \A k \in 1..Len(url_duplicates[g].items) :
               ParsedDay(url_duplicates[g].items[k].task.created_at)
                   <= ParsedDay(Keeper(url_duplicates[g]).task.created_at)

\* The to_delete items of all groups.
RECURSIVE RemovableCount(_)
RemovableCount(groups) ==
    IF groups = <<>> THEN 0
    ELSE Len(Head(groups).items) - 1 + RemovableCount(Tail(groups))

FailedAttempts == {k \in 1..Len(attempts) : attempts[k].outcome # "true"}

\* C9: when a live duplicate removal ends, every failed deletion has been counted
\* as failed, and deletion has been attempted for every removable task of every
\* group, whatever failed before.
C9_FailuresCountedAndLoopContinues ==
    (dd_pc = "done" /\ ~dry_run) =>
        /\ stats.failed = Cardinality(FailedAttempts)
        /\ Len(attempts) = RemovableCount(url_duplicates)

\* The part that holds of both functions: the loop goes on after a failure.
LoopContinuesAfterFailure ==
    (dd_pc = "done" /\ ~dry_run) => Len(attempts) = RemovableCount(url_duplicates)

\* The counting, of delete_duplicates alone.
DeleteDuplicatesCountsFailures ==
    (dd_pc = "done" /\ ~dry_run /\ fn = "delete_duplicates") =>
        stats.failed = Cardinality(FailedAttempts)

\* The resolver on lists with ties: the tasks all on one page with any
\* created_at, or two tasks that share two pages.
TwoPageTasks ==
    {<<Task(1, c, <<UrlA, UrlB>>), Task(2, d, <<UrlB, UrlAwww>>)>> :
        c \in DedupCreated, d \in DedupCreated}

InitTies ==
    /\ CacheIdle
    /\ clockH = 0
    /\ ScoreIdle
    /\ CatIdle
    /\ NormIdle
    /\ MainIdle
    /\ RestIdle
    /\ \/ \E n \in 2..MaxTasks : parsed_tasks \in SameUrlTasks(n)
       \/ parsed_tasks \in TwoPageTasks
    /\ \/ fn = "delete_duplicates" /\ dry_run \in BOOLEAN
       \/ fn = "remove_duplicate_urls" /\ dry_run = FALSE
    /\ remote = {parsed_tasks[k].id : k \in 1..Len(parsed_tasks)}
    /\ url_duplicates = <<>>
    /\ dd_pc = "start"
    /\ dd_pos = Unused
    /\ stats = [deleted |-> 0, failed |-> 0, skipped |-> 0]
    /\ attempts = <<>>

SpecTies == InitTies /\ [][NextDedup]_vars

\* The first member, in encounter order, of those with the greatest created_at.
NewestFirstSeen(items) ==
    CHOOSE k \in 1..Len(items) :
        /\ \A j \in 1..Len(items) : ~StrLess(SortKey(items[k]), SortKey(items[j]))
        /\ \A j \in 1..(k - 1) : StrLess(SortKey(items[j]), SortKey(items[k]))

Without(items, k) == SubSeq(items, 1, k - 1) \o SubSeq(items, k + 1, Len(items))

\* Newest first, and in encounter order among equal created_at.
RECURSIVE FirstSeenOrder(_)
PickFirstSeen(items, k) == <<items[k]>> \o FirstSeenOrder(Without(items, k))
FirstSeenOrder(items) ==
    IF items = <<>> THEN <<>> ELSE PickFirstSeen(items, NewestFirstSeen(items))

IdsOfItems(items) == [k \in 1..Len(items) |-> items[k].task.id]

RECURSIVE RemovableIds(_)
RemovableIds(groups) ==
    IF groups = <<>> THEN <<>>
    ELSE IdsOfItems(Tail(FirstSeenOrder(Head(groups).items)))
             \o RemovableIds(Tail(groups))

\* C21: among the members of a group with equal created_at (or none), the one
\* encountered first comes first: the keeper is the first-seen of the newest,
\* and the removable members are handled in encounter order among equals.
C21_TiesKeepEncounterOrder ==
    /\ \A g \in 1..Len(url_duplicates) :
           /\ Keeper(url_duplicates[g])
                  = url_duplicates[g].items[NewestFirstSeen(url_duplicates[g].items)]
           /\ ToDelete(url_duplicates[g]) = Tail(FirstSeenOrder(url_duplicates[g].items))
    /\ (dd_pc = "done" /\ ~dry_run)
           => [k \in 1..Len(attempts) |-> attempts[k].id] = RemovableIds(url_duplicates)

C21_Witness ==
    /\ dd_pc = "done"
    /\ ~dry_run
    /\ Len(url_duplicates) = 1
    /\ Len(url_duplicates[1].items) = 3
    /\ \A k \in 1..3 : url_duplicates[1].items[k].task.created_at.kind = "none"
    /\ [k \in 1..Len(attempts) |-> attempts[k].id] = <<2, 3>>
    /\ Keeper(url_duplicates[1]).task.id = 1

\* C22: the stats of delete_duplicates add up to the number of removable
\* members of all groups; a dry run requests no deletion and counts only
\* skipped, a live run counts no skipped.
C22_StatsAddUp ==
    fn = "delete_duplicates" =>
        /\ dd_pc = "done"
              => stats.deleted + stats.failed + stats.skipped
                     = RemovableCount(url_duplicates)
        /\ dry_run => /\ attempts = <<>>
                      /\ remote = {parsed_tasks[k].id : k \in 1..Len(parsed_tasks)}
                      /\ stats.deleted = 0
                      /\ stats.failed = 0
        /\ ~dry_run => stats.skipped = 0

C22_Witness ==
    /\ fn = "delete_duplicates"
    /\ dd_pc = "done"
    /\ ~dry_run
    /\ Len(url_duplicates) = 2
    /\ stats = [deleted |-> 1, failed |-> 1, skipped |-> 0]

C22_DryRunWitness ==
    /\ fn = "delete_duplicates"
    /\ dd_pc = "done"
    /\ dry_run
    /\ stats = [deleted |-> 0, failed |-> 0, skipped |-> 2]

\* The removal was live, is over, and every delete_task call answered True.
AllDeletionsSucceeded ==
    /\ dd_pc = "done"
    /\ ~dry_run
    /\ \A k \in 1..Len(attempts) : attempts[k].outcome = "true"

\* A task the service still holds carries a URL of this normal form.
StillCarried(normal_form) ==
    \E k \in 1..Len(parsed_tasks) :
        /\ parsed_tasks[k].id \in remote
        /\ \E i \in 1..Len(parsed_tasks[k].urls) :
               NormalizeUrl(parsed_tasks[k].urls[i]) = normal_form

SingleUrlTasks == \A k \in 1..Len(parsed_tasks) : Len(parsed_tasks[k].urls) <= 1

\* C27: after a live removal in which every deletion succeeded, every URL that
\* had a duplicate group is still carried by a task that survives, and no
\* keeper of a group was requested for deletion.
C27_KeepersSurvive ==
    AllDeletionsSucceeded =>
        \A g \in 1..Len(url_duplicates) :
            /\ StillCarried(url_duplicates[g].url)
            /\ \A k \in 1..Len(attempts) :
                   attempts[k].id # Keeper(url_duplicates[g]).task.id

\* What holds: the same when every task has at most one URL.
KeepersSurviveWithOneUrlPerTask ==
    (AllDeletionsSucceeded /\ SingleUrlTasks) =>
        \A g \in 1..Len(url_duplicates) :
            /\ StillCarried(url_duplicates[g].url)
            /\ \A k \in 1..Len(attempts) :
                   attempts[k].id # Keeper(url_duplicates[g]).task.id

\* C28: within one removal, deletion is requested at most once for a task id.
C28_OneRequestPerTask ==
    \A i, j \in 1..Len(attempts) : i # j => attempts[i].id # attempts[j].id

\* What holds: the same when every task has at most one URL.
OneRequestWithOneUrlPerTask ==
    SingleUrlTasks =>
        \A i, j \in 1..Len(attempts) : i # j => attempts[i].id # attempts[j].id

--------------------------------------------------------------------------
(* Orchestration pass: Steps 4 to 6 of main()                              *)
(*                                                                         *)
(* The pass starts where Step 4 starts: the tasks are parsed, the cache    *)
(* holds what earlier runs left.  A reply of the AI provider is an         *)
(* exception or a text, a list of tokens: "{", "}", prose, and the body of *)
(* a JSON object.                                                          *)

Analysis(score, category, urgency, tags) ==
    [priority_score |-> score, category |-> category, urgency_level |-> urgency,
     tags |-> tags]

\* _get_fallback_analysis
FallbackAnalysis == Analysis(Num(5000), Str("other"), Str("medium"), TagList(<<"untagged">>))

\* The dict of the JSON text "{}".
EmptyAnalysis == Analysis(Missing, Missing, Missing, Missing)

\* json.loads on the texts of the model: an object, or JSONDecodeError.
JsonLoads(json_str) ==
    IF json_str = <<"{", "}">> THEN Value(EmptyAnalysis)
    ELSE IF json_str = <<"{", "good", "}">>
    THEN Value(Analysis(Num(9000), Str("urgent"), Str("high"), TagList(<<"waiting">>)))
    ELSE IF json_str = <<"{", "wild", "}">>
    THEN Value(Analysis(Num(15000), Str("errand"), Missing, Missing))
    ELSE Raised

\* The try block of _parse_response, given start = find('{') and
\* end = rfind('}') + 1 (both counted from 0, as Python does).
ParseSlice(response_text, start, end) ==
    IF start # -1 /\ end > start
    THEN IF JsonLoads(SubSeq(response_text, start + 1, end)).kind = "raised"
         THEN FallbackAnalysis
         ELSE JsonLoads(SubSeq(response_text, start + 1, end)).v
    ELSE FallbackAnalysis

\* _parse_response
ParseResponse(response_text) ==
    ParseSlice(response_text, Find(response_text, "{") - 1,
               RFind(response_text, "}", Len(response_text)))

ApiError    == [kind |-> "raise"]
Reply(text) == [kind |-> "text", text |-> text]

\* A mutant for the checks: analyze_task without its try/except.
AnalyzeTaskNoTry(reply) ==
    IF reply.kind = "raise" THEN Raised ELSE Value(ParseResponse(reply.text))

\* analyze_task of a provider: the API call and _parse_response inside a try whose
\* except returns the fallback.
AnalyzeTask(reply) ==
    IF reply.kind = "raise" THEN Value(FallbackAnalysis)
    ELSE Value(ParseResponse(reply.text))

\* The replies of the model: an exception, JSON, JSON inside prose, the empty
\* object, prose only, JSON cut short, braces in the wrong order, no closing brace.
Replies ==
    {ApiError,
     Reply(<<"{", "good", "}">>),
     Reply(<<"prose", "{", "wild", "}", "prose">>),
     Reply(<<"{", "}">>),
     Reply(<<"prose">>),
     Reply(<<"{", "cut", "}">>),
     Reply(<<"}", "{">>),
     Reply(<<"{", "good">>)}

\* if cached_analysis: an entry is there and its analysis is not the empty dict.
CacheHit(c, task_id, title, urls) ==
    /\ \E e \in EntriesOf(c, task_id) : e.fingerprint = Fingerprint(title, urls)
    /\ CacheLookup(c, task_id, title, urls) # EmptyAnalysis

\* The first loop of rank_tasks: item["priority_score"] = score, or the exception
\* of the scorer.
RECURSIVE ScoreAll(_, _)
ScoreAll(items, nowH) ==
    IF items = <<>> THEN Value(<<>>)
    ELSE IF CalculatePriorityScore(Head(items).task, Head(items).analysis, nowH).kind
                = "raised"
    THEN Raised
    ELSE IF ScoreAll(Tail(items), nowH).kind = "raised" THEN Raised
    ELSE Value(<<[task |-> Head(items).task, analysis |-> Head(items).analysis,
                  priority_score |->
                      CalculatePriorityScore(Head(items).task, Head(items).analysis,
                                             nowH).v]>>
               \o ScoreAll(Tail(items), nowH).v)

\* A mutant for the checks: a sort that puts an item before its equals.
RECURSIVE InsertByScoreTiesFirst(_, _)
InsertByScoreTiesFirst(x, sorted) ==
    IF sorted = <<>> THEN <<x>>
    ELSE IF Head(sorted).priority_score <= x.priority_score THEN <<x>> \o sorted
    ELSE <<Head(sorted)>> \o InsertByScoreTiesFirst(x, Tail(sorted))

\* sorted(key=priority_score, reverse=True) is stable.
RECURSIVE InsertByScore(_, _)
InsertByScore(x, sorted) ==
    IF sorted = <<>> THEN <<x>>
    ELSE IF Head(sorted).priority_score < x.priority_score THEN <<x>> \o sorted
    ELSE <<Head(sorted)>> \o InsertByScore(x, Tail(sorted))

RECURSIVE SortByScore(_)
SortByScore(items) ==
    IF items = <<>> THEN <<>>
    ELSE InsertByScore(items[Len(items)], SortByScore(Before(items, Len(items))))

\* rank_tasks
RankTasks(items, nowH) ==
    IF ScoreAll(items, nowH).kind = "raised" THEN Raised
    ELSE Value(SortByScore(ScoreAll(items, nowH).v))

MaxMainTasks == 2

MainId(k) == CASE k = 1 -> "t1" [] k = 2 -> "t2" [] k = 3 -> "t3" [] OTHER -> "t4"

\* Task k as parse_task_metadata returns it: due tomorrow, not due, due in 20 days.
MainTask(k) ==
    [id |-> MainId(k), title |-> "Title A", urls |-> <<"u1">>,
     due_date |-> IF k % 3 = 1 THEN At(2433) ELSE IF k % 3 = 2 THEN NoDate ELSE At(2889),
     created_at |-> At(2409 - 48 * k),
     importance |-> IF k % 2 = 1 THEN Str("high") ELSE Str("normal")]

MainTasks(n) == [k \in 1..n |-> MainTask(k)]

CacheEntry(task_id, title, urls, result) ==
    [task_id |-> task_id, fingerprint |-> Fingerprint(title, urls),
     analysis |-> result, timestamp |-> 0]

\* What an earlier run can have left for a task: nothing, an analysis of the
\* task as it is, an empty analysis, an analysis of the task under an older title.
LeftFor(task) ==
    {{},
     {CacheEntry(task.id, task.title, task.urls,
                 Analysis(Num(7213), Str("reading"), Str("low"), TagList(<<>>)))},
     {CacheEntry(task.id, task.title, task.urls, EmptyAnalysis)},
     {CacheEntry(task.id, "Title A (old)", task.urls, FallbackAnalysis)}}

RECURSIVE LeftCaches(_)
LeftCaches(tasks) ==
    IF tasks = <<>>
    THEN {{}, {CacheEntry("gone", "Title A", <<"u2">>, FallbackAnalysis)}}
    ELSE {c \cup e : c \in LeftCaches(Tail(tasks)), e \in LeftFor(Head(tasks))}

InitMain ==
    /\ now = 0
    /\ got = NoGet
    /\ written = [id \in TaskIds |-> NotWritten]
    /\ ScoreIdle
    /\ NormIdle
    /\ DedupOff
    /\ RestIdle
    /\ clockH = 2409
    /\ \E n \in 1..MaxMainTasks : parsed_tasks = MainTasks(n)
    /\ cache \in LeftCaches(parsed_tasks)
    /\ main_pc = "cleanup"
    /\ tasks_with_analysis = <<>>
    /\ replies = <<>>
    /\ ranked_tasks = <<>>
    /\ categorized = Unused

\* analysis_cache.cleanup_completed(active_task_ids)
MainCleanup ==
    /\ main_pc = "cleanup"
    /\ cache' = CacheCleanup(cache, {parsed_tasks[k].id : k \in 1..Len(parsed_tasks)})
    /\ main_pc' = "analyze"
    /\ UNCHANGED <<clockH, parsed_tasks, tasks_with_analysis, replies, ranked_tasks,
                   categorized, notMain>>

\* The task the loop of Step 4 is at.
CurrentTask == parsed_tasks[Len(tasks_with_analysis) + 1]

AfterTask == IF Len(tasks_with_analysis) + 1 = Len(parsed_tasks) THEN "rank" ELSE "analyze"

\* One pass of the loop of Step 4 on a cache hit.
MainUseCached ==
    /\ main_pc = "analyze"
    /\ CacheHit(cache, CurrentTask.id, CurrentTask.title, CurrentTask.urls)
    /\ tasks_with_analysis' =
           Append(tasks_with_analysis,
                  [task |-> CurrentTask,
                   analysis |-> CacheLookup(cache, CurrentTask.id, CurrentTask.title,
                                            CurrentTask.urls)])
    /\ replies' = Append(replies, [kind |-> "cached"])
    /\ main_pc' = AfterTask
    /\ UNCHANGED <<cache, clockH, parsed_tasks, ranked_tasks, categorized, notMain>>

\* One pass of the loop of Step 4 on a miss: analyze_task, then set(); an
\* exception out of analyze_task reaches the except of main().
MainAnalyze(reply) ==
    /\ main_pc = "analyze"
    /\ ~CacheHit(cache, CurrentTask.id, CurrentTask.title, CurrentTask.urls)
    /\ replies' = Append(replies, reply)
    /\ IF AnalyzeTask(reply).kind = "raised"
       THEN /\ main_pc' = "aborted"
            /\ UNCHANGED <<cache, tasks_with_analysis>>
       ELSE /\ cache' = CacheStore(cache, CurrentTask.id, CurrentTask.title,
                                   CurrentTask.urls, AnalyzeTask(reply).v, now)
            /\ tasks_with_analysis' =
                   Append(tasks_with_analysis,
                          [task |-> CurrentTask, analysis |-> AnalyzeTask(reply).v])
            /\ main_pc' = AfterTask
    /\ UNCHANGED <<clockH, parsed_tasks, ranked_tasks, categorized, notMain>>

\* Step 5: ranker.rank_tasks(tasks_with_analysis)
MainRank ==
    /\ main_pc = "rank"
    /\ IF RankTasks(tasks_with_analysis, clockH).kind = "raised"
       THEN main_pc' = "aborted" /\ UNCHANGED ranked_tasks
       ELSE /\ ranked_tasks' = RankTasks(tasks_with_analysis, clockH).v
            /\ main_pc' = "categorize"
    /\ UNCHANGED <<cache, clockH, parsed_tasks, tasks_with_analysis, replies, categorized,
                   notMain>>

\* Step 6: ranker.categorize_by_timeframe(ranked_tasks)
MainCategorize ==
    /\ main_pc = "categorize"
    /\ categorized' = CategorizeByTimeframe(ranked_tasks, clockH)
    /\ main_pc' = "done"
    /\ UNCHANGED <<cache, clockH, parsed_tasks, tasks_with_analysis, replies, ranked_tasks,
                   notMain>>

NextMain ==
    \/ MainCleanup
    \/ MainUseCached
    \/ \E reply \in Replies : MainAnalyze(reply)
    \/ MainRank
    \/ MainCategorize

SpecMain == InitMain /\ [][NextMain]_vars

\* The replies that are a failure of the analysis: the call raised, or the text
\* holds no JSON object that parses.
FailedReplies ==
    {ApiError, Reply(<<"prose">>), Reply(<<"{", "cut", "}">>), Reply(<<"}", "{">>),
     Reply(<<"{", "good">>)}

IdsOf(items) == [k \in 1..Len(items) |-> items[k].task.id]

AllBuckets ==
    categorized.today \o categorized.this_week \o categorized.waiting \o categorized.later

IsPermutationOfTasks(ids) ==
    /\ Len(ids) = Len(parsed_tasks)
    /\ \A k \in 1..Len(parsed_tasks) :
           Cardinality({j \in 1..Len(ids) : ids[j] = parsed_tasks[k].id}) = 1

\* C10: a failed AI analysis of a task never aborts the pass: the task gets the
\* fallback analysis (priority_score 50, category other, urgency medium), and the
\* pass that reaches its end has analysed, scored, ranked and categorized every
\* task, each once.
C10_AnalysisFailureNeverAborts ==
    /\ main_pc # "aborted"
    /\ Len(replies) = Len(tasks_with_analysis)
    /\ \A k \in 1..Len(replies) :
           /\ tasks_with_analysis[k].task = parsed_tasks[k]
           /\ replies[k] \in FailedReplies =>
                 /\ tasks_with_analysis[k].analysis.priority_score = Num(5000)
                 /\ tasks_with_analysis[k].analysis.category = Str("other")
                 /\ tasks_with_analysis[k].analysis.urgency_level = Str("medium")
    /\ main_pc \in {"rank", "categorize", "done"} =>
           Len(tasks_with_analysis) = Len(parsed_tasks)
    /\ main_pc \in {"categorize", "done"} =>
           /\ IsPermutationOfTasks(IdsOf(ranked_tasks))
           /\ \A k \in 1..Len(ranked_tasks) :
                  Value(ranked_tasks[k].priority_score) =
                      CalculatePriorityScore(ranked_tasks[k].task,
                                             ranked_tasks[k].analysis, clockH)
    /\ main_pc = "done" => IsPermutationOfTasks(IdsOf(AllBuckets))

\* The pass has ended; the provider raised for the first task and answered the
\* second with JSON, and both are ranked and in a bucket.
C10_Witness ==
    /\ main_pc = "done"
    /\ Len(replies) = 2
    /\ replies[1] = ApiError
    /\ replies[2] = Reply(<<"{", "good", "}">>)
    /\ tasks_with_analysis[1].analysis = FallbackAnalysis
    /\ Len(ranked_tasks) = 2
    /\ Len(AllBuckets) = 2

--------------------------------------------------------------------------
(* Two runs of main() in a row: Steps 3 to 6, then Steps 3 to 6 again      *)
(*                                                                         *)
(* The cache is a file, so the second run starts with what the first left. *)
(* Between the runs the user can edit a task, complete one or add one.     *)

\* The loop of Step 3: a task with URLs and no cached analysis has its first
\* URL fetched.
RECURSIVE FetchLoop(_, _)
FetchLoop(tasks, c) ==
    IF tasks = <<>> THEN <<>>
    ELSE IF Head(tasks).urls # <<>>
            /\ ~CacheHit(c, Head(tasks).id, Head(tasks).title, Head(tasks).urls)
    THEN <<Head(tasks).id>> \o FetchLoop(Tail(tasks), c)
    ELSE FetchLoop(Tail(tasks), c)

\* The task list of the next run: the same, or with the first task edited
\* (title, URL, URL removed), or without it, or with a new task at the end.
NextTaskLists(tasks) ==
    {tasks,
     [tasks EXCEPT ![1].title = "Title A (edited)"],
     [tasks EXCEPT ![1].urls = <<"u2">>],
     [tasks EXCEPT ![1].urls = <<>>],
     Append(tasks, MainTask(Len(tasks) + 1))}
        \cup (IF Len(tasks) > 1 THEN {Tail(tasks)} ELSE {})

InitPass ==
    /\ now = 0
    /\ got = NoGet
    /\ written = [id \in TaskIds |-> NotWritten]
    /\ ScoreIdle
    /\ NormIdle
    /\ DedupOff
    /\ MoveIdle
    /\ CfgIdle
    /\ WeightsIdle
    /\ cleanups = 0
    /\ ListIdle
    /\ ChatIdle
    /\ clockH = 2409
    /\ \E n \in 1..MaxMainTasks : parsed_tasks = MainTasks(n)
    /\ cache \in LeftCaches(parsed_tasks)
    /\ main_pc = "fetch"
    /\ tasks_with_analysis = <<>>
    /\ replies = <<>>
    /\ ranked_tasks = <<>>
    /\ categorized = Unused
    /\ pass_no = 1
    /\ urls_fetched = <<>>
    /\ prev_pass = <<>>

\* Step 3
PassFetch ==
    /\ main_pc = "fetch"
    /\ urls_fetched' = FetchLoop(parsed_tasks, cache)
    /\ main_pc' = "cleanup"
    /\ UNCHANGED <<cache, clockH, parsed_tasks, tasks_with_analysis, replies, ranked_tasks,
                   categorized, pass_no, prev_pass, notPass>>

\* The run is over and main() is started again, on the tasks as they are then.
PassAgain ==
    /\ main_pc = "done"
    /\ pass_no = 1
    /\ pass_no' = 2
    /\ prev_pass' = tasks_with_analysis
    /\ parsed_tasks' \in NextTaskLists(parsed_tasks)
    /\ main_pc' = "fetch"
    /\ tasks_with_analysis' = <<>>
    /\ replies' = <<>>
    /\ ranked_tasks' = <<>>
    /\ categorized' = Unused
    /\ urls_fetched' = <<>>
    /\ UNCHANGED <<cache, clockH, notPass>>

NextPass ==
    \/ PassFetch
    \/ MainCleanup
    \/ MainUseCached
    \/ \E reply \in Replies : MainAnalyze(reply)
    \/ MainRank
    \/ MainCategorize
    \/ PassAgain

SpecPass == InitPass /\ [][NextPass]_vars

\* Task k of this run was in the run before with the same id, title and URL set.
SeenBefore(k) ==
    \E j \in 1..Len(prev_pass) :
        /\ prev_pass[j].task.id = parsed_tasks[k].id
        /\ prev_pass[j].task.title = parsed_tasks[k].title
        /\ Range(prev_pass[j].task.urls) = Range(parsed_tasks[k].urls)

\* C18: after a run that completed, the next run gets a cache hit for every task
\* whose id, title and URL set are the same: the AI analyzer is not called for
\* it and its URL is not fetched.
C18_UnchangedTasksHitCache ==
    pass_no = 2 =>
        /\ \A k \in 1..Len(replies) : SeenBefore(k) => replies[k].kind = "cached"
        /\ \A k \in 1..Len(parsed_tasks) :
               SeenBefore(k) => parsed_tasks[k].id \notin Range(urls_fetched)

\* The same for the tasks whose analysis of the run before is not the empty
\* object.
SeenWithAnalysis(k) ==
    \E j \in 1..Len(prev_pass) :
        /\ prev_pass[j].task.id = parsed_tasks[k].id
        /\ prev_pass[j].task.title = parsed_tasks[k].title
        /\ Range(prev_pass[j].task.urls) = Range(parsed_tasks[k].urls)
        /\ prev_pass[j].analysis # EmptyAnalysis

NonEmptyAnalysesHitCache ==
    pass_no = 2 =>
        /\ \A k \in 1..Len(replies) : SeenWithAnalysis(k) => replies[k].kind = "cached"
        /\ \A k \in 1..Len(parsed_tasks) :
               SeenWithAnalysis(k) => parsed_tasks[k].id \notin Range(urls_fetched)

\* A task that was edited, or that is new, is analysed again.
ChangedTasksAreAnalysed ==
    pass_no = 2 =>
        \A k \in 1..Len(replies) : ~SeenBefore(k) => replies[k].kind # "cached"

--------------------------------------------------------------------------
(* A whole run of main(): Steps 1 to 6                                     *)
(*                                                                         *)
(* The run starts with the tasks Step 1 fetched and Step 2 parsed.  A      *)
(* created_at is one ISO string: its characters for the sort of the        *)
(* duplicate resolver, its moment for the scorer.                          *)

MaxRunTasks == 2

RunCreated(h, d) == [kind |-> "at", h |-> h, chars |-> IsoDay(d).chars]

RunDay(k) == CASE k = 1 -> "3" [] k = 2 -> "2" [] k = 3 -> "1" [] OTHER -> "0"

RunTask(k, urls) ==
    [id |-> MainId(k), list_id |-> "list", title |-> "Title A", urls |-> urls,
     due_date |-> IF k % 2 = 1 THEN At(2433) ELSE NoDate,
     created_at |-> RunCreated(2409 - 24 * k, RunDay(k)),
     importance |-> Str("normal")]

RECURSIVE RunTaskLists(_)
RunTaskLists(n) ==
    IF n = 0 THEN {<<>>}
    ELSE {Append(l, RunTask(n, u)) :
             l \in RunTaskLists(n - 1), u \in {<<>>, <<UrlA>>, <<UrlAwww>>, <<UrlB>>}}

\* What earlier runs left in the cache: nothing, or an analysis of every task
\* of this run and of a task that was completed since.
RunCaches(tasks) ==
    {{},
     {CacheEntry("gone", "Title A", <<UrlB>>, FallbackAnalysis)},
     {CacheEntry(tasks[k].id, tasks[k].title, tasks[k].urls, FallbackAnalysis) :
         k \in 1..Len(tasks)}
        \cup {CacheEntry("gone", "Title A", <<UrlB>>, FallbackAnalysis)}}

RunReplies == {ApiError, Reply(<<"{", "good", "}">>)}

InitRun ==
    /\ now = 0
    /\ got = NoGet
    /\ written = [id \in TaskIds |-> NotWritten]
    /\ ScoreIdle
    /\ NormIdle
    /\ MoveIdle
    /\ CfgIdle
    /\ WeightsIdle
    /\ clockH = 2409
    /\ \E n \in 0..MaxRunTasks : parsed_tasks \in RunTaskLists(n)
    /\ cache \in RunCaches(parsed_tasks)
    /\ fn \in {"none", "remove_duplicate_urls"}
    /\ dry_run = FALSE
    /\ remote = {parsed_tasks[k].id : k \in 1..Len(parsed_tasks)}
    /\ url_duplicates = <<>>
    /\ dd_pc = "idle"
    /\ dd_pos = Unused
    /\ stats = [deleted |-> 0, failed |-> 0, skipped |-> 0]
    /\ attempts = <<>>
    /\ main_pc = "start"
    /\ tasks_with_analysis = <<>>
    /\ replies = <<>>
    /\ ranked_tasks = <<>>
    /\ categorized = Unused
    /\ pass_no = 1
    /\ urls_fetched = <<>>
    /\ prev_pass = <<>>
    /\ cleanups = 0
    /\ ListIdle
    /\ ChatIdle

\* "if not tasks: return", then Step 2.5 when AUTO_REMOVE_DUPLICATES is set.
RunParse ==
    /\ main_pc = "start"
    /\ main_pc' = IF parsed_tasks = <<>> THEN "exit"
                  ELSE IF fn = "remove_duplicate_urls" THEN "dedup" ELSE "fetch"
    /\ dd_pc' = IF parsed_tasks # <<>> /\ fn = "remove_duplicate_urls"
                THEN "start" ELSE dd_pc
    /\ UNCHANGED <<cache, parsed_tasks, cleanups, notRun>>

\* A mutant for the checks: no re-fetch after the removal.
RefetchedNever(tasks, duplicates_removed, held) == tasks

\* if duplicates_removed > 0: the tasks are fetched and parsed again.
Refetched(tasks, duplicates_removed, held) ==
    IF duplicates_removed > 0
    THEN SelectSeq(tasks, LAMBDA t : t.id \in held)
    ELSE tasks

\* The end of Step 2.5.
RunRefetch ==
    /\ main_pc = "dedup"
    /\ dd_pc = "done"
    /\ parsed_tasks' = Refetched(parsed_tasks, stats.deleted, remote)
    /\ main_pc' = "fetch"
    /\ UNCHANGED <<cache, dd_pc, cleanups, notRun>>

\* analysis_cache.cleanup_completed(active_task_ids), at the start of Step 4.
RunCleanup ==
    /\ main_pc = "cleanup"
    /\ cache' = CacheCleanup(cache, {parsed_tasks[k].id : k \in 1..Len(parsed_tasks)})
    /\ cleanups' = cleanups + 1
    /\ main_pc' = IF parsed_tasks = <<>> THEN "rank" ELSE "analyze"
    /\ UNCHANGED <<parsed_tasks, dd_pc, notRun>>

NextRun ==
    \/ RunParse
    \/ DedupStart
    \/ \E outcome \in {"true", "false", "raise"} : DedupDelete(outcome)
    \/ RunRefetch
    \/ PassFetch
    \/ RunCleanup
    \/ MainUseCached
    \/ \E reply \in RunReplies : MainAnalyze(reply)
    \/ MainRank
    \/ MainCategorize

SpecRun == InitRun /\ [][NextRun]_vars

\* The run is over: it returned for want of tasks, or Step 6 is done.  The cache
\* statistics are reported when the loop of Step 4 is through.
RunEnded      == main_pc \in {"exit", "done"}
StatsReported == main_pc \in {"rank", "categorize", "done"}

\* C25: in every run the cache cleanup is called exactly once, after the task
\* set of the run is known and before the cache statistics are reported, and
\* when the run ends the cache holds no entry of a task outside the active set.
C25_CleanupOncePerRun ==
    /\ main_pc \in {"start", "dedup", "fetch", "cleanup"} => cleanups = 0
    /\ (StatsReported \/ RunEnded \/ main_pc = "analyze") => cleanups = 1
    /\ RunEnded => \A e \in cache : e.task_id \in remote

\* What holds: the same for every run that fetched at least one task.
CleanupOnceWhenTasksFetched ==
    main_pc # "exit" =>
        /\ main_pc \in {"start", "dedup", "fetch", "cleanup"} => cleanups = 0
        /\ (StatsReported \/ main_pc = "analyze") => cleanups = 1
        /\ (StatsReported \/ main_pc = "analyze")
               => /\ \A e \in cache : e.task_id \in remote
                  /\ remote = {parsed_tasks[k].id : k \in 1..Len(parsed_tasks)}

\* The ids of the tasks the duplicate removal of this run deleted.
DeletedIds == {attempts[k].id : k \in {j \in 1..Len(attempts) : attempts[j].outcome = "true"}}

\* C26: when Step 2.5 deleted a task, the tasks are fetched again before the
\* analysis, so a task it deleted is not fetched for content, analysed, cached,
\* ranked or categorized in the same run.
C26_DeletedTasksLeaveTheRun ==
    /\ (main_pc \in {"fetch", "cleanup", "analyze", "rank", "categorize", "done"}
          /\ DeletedIds # {})
           => {parsed_tasks[k].id : k \in 1..Len(parsed_tasks)} = remote
    /\ \A id \in DeletedIds :
           /\ id \notin Range(urls_fetched)
           /\ id \notin Range(IdsOf(tasks_with_analysis))
           /\ id \notin Range(IdsOf(ranked_tasks))
           /\ categorized # Unused => id \notin Range(IdsOf(AllBuckets))
           /\ main_pc \in {"analyze", "rank", "categorize", "done"}
                  => \A e \in cache : e.task_id # id

C26_Witness ==
    /\ main_pc = "done"
    /\ DeletedIds = {"t2"}
    /\ IdsOf(ranked_tasks) = <<"t1">>
    /\ Len(AllBuckets) = 1
    /\ \E e \in cache : e.task_id = "t1"

--------------------------------------------------------------------------
(* rank_tasks on its own                                                   *)

MaxRankInput == 3

\* The analyses and due dates of the items handed to rank_tasks; the fallback
\* and the empty analysis score the same.
RankAnalyses ==
    {FallbackAnalysis, EmptyAnalysis,
     Analysis(Num(9000), Str("urgent"), Str("high"), TagList(<<"waiting">>))}

RankItem(k, due, analysis) ==
    [task |-> [id |-> MainId(k), title |-> "Title A", urls |-> <<"u1">>,
               due_date |-> due, created_at |-> NoDate, importance |-> Str("normal")],
     analysis |-> analysis]

\* The lists of up to n items, with ids in the order of the list.
RECURSIVE RankInputs(_)
RankInputs(n) ==
    IF n = 0 THEN {<<>>}
    ELSE RankInputs(n - 1) \cup
         {Append(l, RankItem(n, d, a)) :
             l \in {x \in RankInputs(n - 1) : Len(x) = n - 1},
             d \in {NoDate, At(2433)}, a \in RankAnalyses}

InitRank ==
    /\ CacheIdle
    /\ ScoreIdle
    /\ NormIdle
    /\ DedupIdle
    /\ RestIdle
    /\ clockH = 2409
    /\ main_pc = "rank"
    /\ tasks_with_analysis \in RankInputs(MaxRankInput)
    /\ replies = <<>>
    /\ ranked_tasks = <<>>
    /\ categorized = Unused

NextRank == MainRank

SpecRank == InitRank /\ [][NextRank]_vars

\* The place of the item of the ranked list in the list rank_tasks was given.
InputIndex(it) ==
    CHOOSE k \in 1..Len(tasks_with_analysis) : tasks_with_analysis[k].task.id = it.task.id

\* C11: what rank_tasks returns is a permutation of its input, in descending
\* order of priority_score, and items of equal score are in their input order.
C11_RankSortedStablePermutation ==
    main_pc = "categorize" =>
        /\ Len(ranked_tasks) = Len(tasks_with_analysis)
        /\ \A k \in 1..Len(tasks_with_analysis) :
               \E j \in 1..Len(ranked_tasks) :
                   /\ ranked_tasks[j].task = tasks_with_analysis[k].task
                   /\ ranked_tasks[j].analysis = tasks_with_analysis[k].analysis
        /\ \A i, j \in 1..Len(ranked_tasks) :
               i < j =>
                  /\ ranked_tasks[i].priority_score >= ranked_tasks[j].priority_score
                  /\ ranked_tasks[i].priority_score = ranked_tasks[j].priority_score
                        => InputIndex(ranked_tasks[i]) < InputIndex(ranked_tasks[j])

\* Three items ranked: the last of the input is first, the two before it tie and
\* are in their input order.
C11_Witness ==
    /\ main_pc = "categorize"
    /\ Len(ranked_tasks) = 3
    /\ ranked_tasks[1].task.id = "t3"
    /\ ranked_tasks[2].task.id = "t1"
    /\ ranked_tasks[3].task.id = "t2"
    /\ ranked_tasks[2].priority_score = ranked_tasks[3].priority_score
    /\ ranked_tasks[2].analysis # ranked_tasks[3].analysis
    /\ ranked_tasks[1].priority_score > ranked_tasks[2].priority_score

--------------------------------------------------------------------------
(* List moves                                                              *)
(*                                                                         *)
(* move_task (move_to_tasks.py, move_domain_tasks.py,                      *)
(* organize_priority_lists.py, all three the same) and the loop at the     *)
(* end of move_to_delete_list.py, which reads the task before it copies    *)
(* it.  A call of the service returns, raises, or (a create) raises after  *)
(* the service has made the task.                                          *)

MaxMoves == 2

TargetList == "dst"

\* if old_list_id == target_list_id: return 'skipped'
AlreadyInTarget(task) == task.listId = TargetList

\* The loop of move_to_delete_list.py gets the full task first.
GetIsCalled(task) == mv_fn = "move_loop" /\ ~AlreadyInTarget(task)

\* The create is reached unless the task is skipped or the get raised.
CreateIsCalled(task, get) ==
    /\ ~AlreadyInTarget(task)
    /\ mv_fn = "move_loop" => get = "ok"

\* A mutant for the checks: the delete on the path of a failed create too.
DeleteIsCalledAlways(task, get, create) == CreateIsCalled(task, get)

\* create_task and delete_task are two statements of one try block: the delete is
\* reached when the create returned.
DeleteIsCalled(task, get, create) == CreateIsCalled(task, get) /\ create = "ok"

\* The calls of one move, in the order made, with their outcomes.
CallsOf(task, get, create, delete) ==
    (IF GetIsCalled(task) THEN <<[op |-> "get", outcome |-> get]>> ELSE <<>>)
    \o (IF CreateIsCalled(task, get) THEN <<[op |-> "create", outcome |-> create]>>
        ELSE <<>>)
    \o (IF DeleteIsCalled(task, get, create) THEN <<[op |-> "delete", outcome |-> delete]>>
        ELSE <<>>)

\* What the move reports: 'skipped', 'failed' from the except branch, else 'moved'.
MoveResult(task, get, create, delete) ==
    IF AlreadyInTarget(task) THEN "skipped"
    ELSE IF \E k \in 1..Len(CallsOf(task, get, create, delete)) :
                CallsOf(task, get, create, delete)[k].outcome
                    \in {"raise", "raise_after_commit"}
    THEN "failed"
    ELSE "moved"

\* The service after the calls of one move.
StoreAfter(store, task, calls) ==
    [originals |->
         IF \E k \in 1..Len(calls) : calls[k].op = "delete" /\ calls[k].outcome = "true"
         THEN store.originals \ {task.id} ELSE store.originals,
     copies |->
         IF \E k \in 1..Len(calls) :
                calls[k].op = "create" /\ calls[k].outcome \in {"ok", "raise_after_commit"}
         THEN store.copies \cup {task.id} ELSE store.copies]

\* The lists of n tasks to move, each in the source list or already in the target.
RECURSIVE MoveTasks(_)
MoveTasks(n) ==
    IF n = 0 THEN {<<>>}
    ELSE {Append(l, [id |-> n, listId |-> where]) :
             l \in MoveTasks(n - 1), where \in {"src", TargetList}}

InitMove ==
    /\ CacheIdle
    /\ clockH = 0
    /\ ScoreIdle
    /\ CatIdle
    /\ NormIdle
    /\ DedupIdle
    /\ MainIdle
    /\ CfgIdle
    /\ PassIdle
    /\ WeightsIdle
    /\ cleanups = 0
    /\ ListIdle
    /\ ChatIdle
    /\ mv_fn \in {"move_task", "move_loop"}
    /\ \E n \in 1..MaxMoves : mv_tasks \in MoveTasks(n)
    /\ mv_store = [originals |-> {mv_tasks[k].id : k \in 1..Len(mv_tasks)}, copies |-> {}]
    /\ mv_log = <<>>

\* One move: move_task, or one pass of the loop of move_to_delete_list.py.
Move(get, create, delete) ==
    /\ Len(mv_log) < Len(mv_tasks)
    /\ mv_log' =
           Append(mv_log,
                  [task |-> mv_tasks[Len(mv_log) + 1],
                   calls |-> CallsOf(mv_tasks[Len(mv_log) + 1], get, create, delete),
                   result |-> MoveResult(mv_tasks[Len(mv_log) + 1], get, create, delete)])
    /\ mv_store' = StoreAfter(mv_store, mv_tasks[Len(mv_log) + 1],
                              CallsOf(mv_tasks[Len(mv_log) + 1], get, create, delete))
    /\ UNCHANGED <<mv_fn, mv_tasks, notMove>>

NextMove ==
    \E get \in {"ok", "raise"}, create \in {"ok", "raise", "raise_after_commit"},
       delete \in {"true", "false", "raise"} : Move(get, create, delete)

SpecMove == InitMove /\ [][NextMove]_vars

CallsWith(calls, op) == {k \in 1..Len(calls) : calls[k].op = op}

\* C12: in every move the delete of the original comes after a create that
\* succeeded, the create is called at most once, a task already in the target list
\* gets no call at all, and every task is in its list or in the target list.
C12_MoveCreatesThenDeletes ==
    /\ \A m \in 1..Len(mv_log) :
          /\ Cardinality(CallsWith(mv_log[m].calls, "create")) <= 1
          /\ \A d \in CallsWith(mv_log[m].calls, "delete") :
                \E c \in CallsWith(mv_log[m].calls, "create") :
                    c < d /\ mv_log[m].calls[c].outcome = "ok"
          /\ AlreadyInTarget(mv_log[m].task) =>
                mv_log[m].calls = <<>> /\ mv_log[m].result = "skipped"
    /\ \A k \in 1..Len(mv_tasks) :
          mv_tasks[k].id \in mv_store.originals \cup mv_store.copies

\* A task was copied and its original deleted; another was in the target list.
C12_Witness ==
    /\ Len(mv_log) = 2
    /\ mv_log[1].result = "moved"
    /\ mv_log[1].task.id \in mv_store.copies \ mv_store.originals
    /\ mv_log[2].result = "skipped"

PartialMove(m) ==
    /\ \E c \in CallsWith(m.calls, "create") : m.calls[c].outcome = "ok"
    /\ \E d \in CallsWith(m.calls, "delete") : m.calls[d].outcome # "true"

CleanFailure(m) ==
    \E c \in CallsWith(m.calls, "create") : m.calls[c].outcome = "raise"

CompleteMove(m) ==
    \E d \in CallsWith(m.calls, "delete") : m.calls[d].outcome = "true"

\* C13: a move whose create succeeded and whose delete failed reports a result
\* that neither a clean failure nor a complete move reports, and no move calls
\* create or delete a second time.
C13_PartialMoveIsDistinct ==
    /\ \A m, n \in 1..Len(mv_log) :
          (PartialMove(mv_log[m]) /\ (CleanFailure(mv_log[n]) \/ CompleteMove(mv_log[n])))
              => mv_log[m].result # mv_log[n].result
    /\ \A m \in 1..Len(mv_log) :
          /\ Cardinality(CallsWith(mv_log[m].calls, "create")) <= 1
          /\ Cardinality(CallsWith(mv_log[m].calls, "delete")) <= 1

\* The part that holds: nothing is retried.
MoveNeverRetries ==
    \A m \in 1..Len(mv_log) :
        /\ Cardinality(CallsWith(mv_log[m].calls, "create")) <= 1
        /\ Cardinality(CallsWith(mv_log[m].calls, "delete")) <= 1

--------------------------------------------------------------------------
(* move_list_to_tasks of move_to_tasks.py: every task of one list is moved *)
(* to the list named Tasks, and the list is deleted on request             *)

\* The lists --list can name: a list of their own, or the list named Tasks.
SourceLists == {"src", TargetList}

\* task['listId'] = source_list_id, for each task get_tasks returned.
FetchedFrom(source, n) == [k \in 1..n |-> [id |-> k, listId |-> source]]

\* failed += 1 for each 'failed'; 'moved' and 'skipped' leave it alone.
FailedCount(log) == Cardinality({m \in 1..Len(log) : log[m].result = "failed"})

\* moved += 1 for each 'moved'.
MovedCount(log) == Cardinality({m \in 1..Len(log) : log[m].result = "moved"})

\* A mutant for the checks: the list is deleted whatever the moves reported.
DeleteListIsCalledAlways(list, log) == list.delete_after

\* if not tasks: if delete_after: delete_list; after the loop:
\* if delete_after and failed == 0: delete_list.
DeleteListIsCalled(list, log) == list.delete_after /\ FailedCount(log) = 0

\* The service after delete_list went through: the list is gone with the tasks
\* it held, the originals still in it and, when it is the list named Tasks, the
\* copies too.
StoreAfterDeleteList(store, list) ==
    [originals |-> {},
     copies |-> IF list.source = TargetList THEN {} ELSE store.copies]

InitMoveList ==
    /\ CacheIdle
    /\ clockH = 0
    /\ ScoreIdle
    /\ CatIdle
    /\ NormIdle
    /\ DedupIdle
    /\ MainIdle
    /\ CfgIdle
    /\ PassIdle
    /\ WeightsIdle
    /\ cleanups = 0
    /\ ChatIdle
    /\ mv_fn = "move_list_to_tasks"
    /\ \E source \in SourceLists, delete_after \in BOOLEAN, n \in 0..MaxMoves :
           /\ mv_list = [source |-> source, delete_after |-> delete_after,
                         state |-> "open"]
           /\ mv_tasks = FetchedFrom(source, n)
    /\ mv_store = [originals |-> {mv_tasks[k].id : k \in 1..Len(mv_tasks)}, copies |-> {}]
    /\ mv_log = <<>>

\* One pass of the loop: move_task on the next task.
MoveNext(create, delete) ==
    /\ mv_list.state = "open"
    /\ Move("ok", create, delete)
    /\ UNCHANGED mv_list

\* What follows the loop, and the branch of the empty list: the delete_list
\* request, which goes through or raises.
FinishList(outcome) ==
    /\ mv_list.state = "open"
    /\ Len(mv_log) = Len(mv_tasks)
    /\ ~DeleteListIsCalled(mv_list, mv_log) => outcome = "raise"
    /\ mv_list' = [mv_list EXCEPT
                      !.state = IF DeleteListIsCalled(mv_list, mv_log) /\ outcome = "ok"
                                THEN "deleted" ELSE "kept"]
    /\ mv_store' = IF DeleteListIsCalled(mv_list, mv_log) /\ outcome = "ok"
                   THEN StoreAfterDeleteList(mv_store, mv_list) ELSE mv_store
    /\ UNCHANGED <<mv_fn, mv_tasks, mv_log, cacheVars, clockH, scoreVars, catVars,
                   normVars, dedupVars, mainVars, cfgVars, passVars, wVars, runVars,
                   chatVars>>

NextMoveList ==
    \/ \E create \in {"ok", "raise", "raise_after_commit"},
          delete \in {"true", "false", "raise"} : MoveNext(create, delete)
    \/ \E outcome \in {"ok", "raise"} : FinishList(outcome)

SpecMoveList == InitMoveList /\ [][NextMoveList]_vars

\* C29: a list that was deleted was empty or had every fetched task moved, a
\* list with a failed move is never deleted, and every fetched task is still in
\* its list or in Tasks after the list was deleted.
C29_ListDeletedOnlyWhenAllMoved ==
    /\ mv_list.state = "deleted" =>
          /\ \A m \in 1..Len(mv_log) : mv_log[m].result = "moved"
          /\ \A k \in 1..Len(mv_tasks) :
                mv_tasks[k].id \in mv_store.originals \cup mv_store.copies
    /\ FailedCount(mv_log) > 0 => mv_list.state # "deleted"

\* The part that holds: a list with a failed move is never deleted, and a
\* deleted list other than Tasks leaves a copy of each of its tasks in Tasks.
FailedMoveKeepsTheList ==
    /\ FailedCount(mv_log) > 0 => mv_list.state # "deleted"
    /\ (mv_list.state = "deleted" /\ mv_list.source # TargetList) =>
          /\ MovedCount(mv_log) = Len(mv_tasks)
          /\ \A k \in 1..Len(mv_tasks) : mv_tasks[k].id \in mv_store.copies

--------------------------------------------------------------------------
(* The chats: ChatHandler.do_POST of chat_web.py and the loop of           *)
(* chat_with_tasks of chat_tasks.py                                        *)

MaxChat == 3

\* {"role": ..., "content": ...}; the contents are told apart by what they are.
Message(role, content) == [role |-> role, content |-> content]

\* list.pop(): the list without its last element.
Pop(history) == SubSeq(history, 1, Len(history) - 1)

\* The try block of do_POST for the path /chat, after the user message was
\* appended. first is the AI call: it raises, answers, or answers with a
\* [FETCH_URL: ...] request; second is the follow-up call after the fetch; write
\* is the sending of the reply, inside the same try block.
AfterFetch(history, second, write) ==
    IF second = "raise" THEN Pop(history)
    ELSE IF write = "raise" THEN Pop(Append(history, Message("assistant", "answer")))
    ELSE Append(history, Message("assistant", "answer"))

\* conversation_history.append(user message), the try block, and the pop of the
\* except branch.
DoPost(history, first, second, write) ==
    IF first = "raise" THEN Pop(Append(history, Message("user", "question")))
    ELSE IF first = "fetch"
    THEN AfterFetch(Append(history, Message("user", "question"))
                        \o <<Message("assistant", "fetch_url"),
                              Message("user", "url_content")>>,
                    second, write)
    ELSE AfterFetch(Append(history, Message("user", "question")), "answer", write)

\* One turn of the loop of chat_with_tasks: append, call, append the answer, or
\* pop in the except branch; the answer is printed after it was appended.
ChatTurn(history, first, write) ==
    IF first = "raise" THEN Pop(Append(history, Message("user", "question")))
    ELSE IF write = "raise"
    THEN Pop(Append(Append(history, Message("user", "question")),
                    Message("assistant", "answer")))
    ELSE Append(Append(history, Message("user", "question")),
                Message("assistant", "answer"))

\* The outcomes one request can have: the follow-up call is made after a fetch
\* request only, and the reply is sent when the last call answered.
Outcomes(program) ==
    {o \in [first : {"raise", "answer", "fetch"}, second : {"none", "raise", "answer"},
            write : {"none", "ok", "raise"}] :
        /\ program = "chat_with_tasks" => o.first # "fetch"
        /\ o.second # "none" <=> o.first = "fetch"
        /\ o.write # "none" <=>
              (o.first = "answer" \/ (o.first = "fetch" /\ o.second = "answer"))}

InitChat ==
    /\ CacheIdle
    /\ clockH = 0
    /\ ScoreIdle
    /\ CatIdle
    /\ NormIdle
    /\ DedupIdle
    /\ MainIdle
    /\ MoveIdle
    /\ CfgIdle
    /\ PassIdle
    /\ WeightsIdle
    /\ cleanups = 0
    /\ ListIdle
    /\ chat_fn \in {"do_POST", "chat_with_tasks"}
    /\ conversation_history = <<>>
    /\ chat_log = <<>>

\* One POST to /chat; the server handles one request at a time.
Post(o) ==
    /\ chat_fn = "do_POST"
    /\ Len(chat_log) < MaxChat
    /\ conversation_history' = DoPost(conversation_history, o.first, o.second, o.write)
    /\ chat_log' = Append(chat_log, [outcome |-> o, before |-> conversation_history])
    /\ UNCHANGED <<chat_fn, cacheVars, clockH, scoreVars, catVars, normVars, dedupVars,
                   mainVars, moveVars, cfgVars, passVars, wVars, runVars, listVars>>

\* One line typed into chat_with_tasks.
Turn(o) ==
    /\ chat_fn = "chat_with_tasks"
    /\ Len(chat_log) < MaxChat
    /\ conversation_history' = ChatTurn(conversation_history, o.first, o.write)
    /\ chat_log' = Append(chat_log, [outcome |-> o, before |-> conversation_history])
    /\ UNCHANGED <<chat_fn, cacheVars, clockH, scoreVars, catVars, normVars, dedupVars,
                   mainVars, moveVars, cfgVars, passVars, wVars, runVars, listVars>>

NextChat ==
    \/ \E o \in Outcomes("do_POST") : Post(o)
    \/ \E o \in Outcomes("chat_with_tasks") : Turn(o)

SpecChat == InitChat /\ [][NextChat]_vars

\* The AI call of the request failed: the first call, or the follow-up call.
AiCallFailed(o) == o.first = "raise" \/ o.second = "raise"

\* user, assistant, user, assistant, ...
Alternates(history) ==
    \A k \in 1..Len(history) :
        history[k].role = (IF k % 2 = 1 THEN "user" ELSE "assistant")

\* C30: after a request whose AI call failed, on the first call or on the
\* follow-up call after a FETCH_URL request, the history is the history from
\* before the request; and the history always alternates user and assistant
\* messages, starting with user.
C30_FailedChatLeavesHistory ==
    /\ (chat_log # <<>> /\ AiCallFailed(chat_log[Len(chat_log)].outcome)) =>
          conversation_history = chat_log[Len(chat_log)].before
    /\ Alternates(conversation_history)

\* The part that holds: a failure of the first call leaves the history as it
\* was, and the history alternates as long as every reply was sent.
FirstCallFailureLeavesHistory ==
    /\ (chat_log # <<>> /\ chat_log[Len(chat_log)].outcome.first = "raise") =>
          conversation_history = chat_log[Len(chat_log)].before
    /\ (\A k \in 1..Len(chat_log) : chat_log[k].outcome.write # "raise") =>
          Alternates(conversation_history)

\* The loop of chat_with_tasks makes one call per turn: there the history is
\* restored after every failed call.
TurnFailureLeavesHistory ==
    (chat_fn = "chat_with_tasks" /\ chat_log # <<>>
        /\ AiCallFailed(chat_log[Len(chat_log)].outcome)) =>
        conversation_history = chat_log[Len(chat_log)].before

--------------------------------------------------------------------------
(* Start of a run: Config.validate and the steps of main() up to the       *)
(* construction of TaskAnalyzer                                            *)

Providers == {"anthropic", "openai", "google", "xai", "mistral"}

\* The name of the API key setting validate asks for, per AI_PROVIDER.
KeyOf(provider) ==
    CASE provider = "openai" -> "OPENAI_API_KEY"
      [] provider = "anthropic" -> "ANTHROPIC_API_KEY"
      [] provider = "google" -> "GOOGLE_API_KEY"
      [] provider = "xai" -> "XAI_API_KEY"
      [] OTHER -> "none"

\* errors.append(...) when the setting is empty.
Require(errs, is_set, name) == IF is_set THEN errs ELSE Append(errs, name)

\* The if/elif chain on AI_PROVIDER.
ValidateProvider(errs, cfg) ==
    IF KeyOf(cfg.AI_PROVIDER) = "none" THEN errs
    ELSE Require(errs, cfg.API_KEY, KeyOf(cfg.AI_PROVIDER))

\* if cls.SEND_EMAIL_BRIEF: three more settings.
ValidateEmail(errs, cfg) ==
    IF cfg.SEND_EMAIL_BRIEF
    THEN Require(Require(Require(errs, cfg.EMAIL_FROM, "EMAIL_FROM"),
                         cfg.EMAIL_TO, "EMAIL_TO"),
                 cfg.EMAIL_PASSWORD, "EMAIL_PASSWORD")
    ELSE errs

\* Config.validate: the list errors; it raises ValueError when the list is not empty.
Validate(cfg) ==
    ValidateEmail(
        ValidateProvider(
            Require(Require(<<>>, cfg.CLIENT_ID, "CLIENT_ID"), cfg.TENANT_ID, "TENANT_ID"),
            cfg),
        cfg)

\* TaskAnalyzer.__init__: the providers it constructs; else ValueError.
AnalyzerSupports(provider) == provider \in {"anthropic", "openai", "google"}

\* The settings of the model; the API key is the one KeyOf names.
Configs ==
    {[CLIENT_ID |-> c, TENANT_ID |-> t, AI_PROVIDER |-> p, API_KEY |-> k,
      SEND_EMAIL_BRIEF |-> e, EMAIL_FROM |-> f, EMAIL_TO |-> g, EMAIL_PASSWORD |-> w,
      AUTO_REMOVE_DUPLICATES |-> a, has_tasks |-> h] :
        c \in BOOLEAN, t \in BOOLEAN, p \in Providers, k \in BOOLEAN, e \in BOOLEAN,
        f \in BOOLEAN, g \in BOOLEAN, w \in BOOLEAN, a \in BOOLEAN, h \in BOOLEAN}

InitCfg ==
    /\ CacheIdle
    /\ clockH = 0
    /\ ScoreIdle
    /\ CatIdle
    /\ NormIdle
    /\ DedupIdle
    /\ MainIdle
    /\ MoveIdle
    /\ PassIdle
    /\ WeightsIdle
    /\ cleanups = 0
    /\ ListIdle
    /\ ChatIdle
    /\ config \in {c \in Configs :
                      /\ KeyOf(c.AI_PROVIDER) = "none" => ~c.API_KEY
                      /\ ~c.SEND_EMAIL_BRIEF =>
                             (c.EMAIL_FROM /\ c.EMAIL_TO /\ c.EMAIL_PASSWORD)}
    /\ cfg_pc = "validate"
    /\ errors = <<>>
    /\ events = <<>>

\* try: Config.validate() ... except ValueError: sys.exit(1)
CfgValidate ==
    /\ cfg_pc = "validate"
    /\ errors' = Validate(config)
    /\ cfg_pc' = IF Validate(config) = <<>> THEN "fetch" ELSE "exit_config"
    /\ UNCHANGED <<config, events, notCfg>>

\* Step 1: get_all_tasks; with no task main() returns.
CfgFetch ==
    /\ cfg_pc = "fetch"
    /\ events' = Append(events, "fetch")
    /\ cfg_pc' = IF config.has_tasks THEN "dedup" ELSE "done"
    /\ UNCHANGED <<config, errors, notCfg>>

\* Steps 2.5 and 3: the duplicates are deleted when enabled, the URLs are fetched.
CfgDedupAndContent ==
    /\ cfg_pc = "dedup"
    /\ events' = IF config.AUTO_REMOVE_DUPLICATES
                 THEN events \o <<"delete", "fetch", "fetch_url">>
                 ELSE Append(events, "fetch_url")
    /\ cfg_pc' = "analyzer"
    /\ UNCHANGED <<config, errors, notCfg>>

\* Step 4 begins with TaskAnalyzer(); its ValueError reaches the except of main().
CfgAnalyzer ==
    /\ cfg_pc = "analyzer"
    /\ IF AnalyzerSupports(config.AI_PROVIDER)
       THEN cfg_pc' = "done" /\ events' = Append(events, "analyze")
       ELSE cfg_pc' = "exit_provider" /\ UNCHANGED events
    /\ UNCHANGED <<config, errors, notCfg>>

NextCfg ==
    \/ CfgValidate
    \/ CfgFetch
    \/ CfgDedupAndContent
    \/ CfgAnalyzer

SpecCfg == InitCfg /\ [][NextCfg]_vars

\* The required settings of a configuration that are empty.
MissingSettings(cfg) ==
    {n \in {"CLIENT_ID", "TENANT_ID"} : ~cfg[n]}
    \cup (IF KeyOf(cfg.AI_PROVIDER) # "none" /\ ~cfg.API_KEY
          THEN {KeyOf(cfg.AI_PROVIDER)} ELSE {})
    \cup (IF cfg.SEND_EMAIL_BRIEF
          THEN {n \in {"EMAIL_FROM", "EMAIL_TO", "EMAIL_PASSWORD"} : ~cfg[n]} ELSE {})

\* C14: validate names every missing required setting in its one error, and a run
\* that ends on a configuration the code rejects (by validate, or by TaskAnalyzer
\* for an AI_PROVIDER it does not support) has fetched, deleted and analysed
\* nothing.
C14_ConfigErrorAbortsBeforeTasks ==
    /\ cfg_pc \notin {"idle", "validate"} => Range(errors) = MissingSettings(config)
    /\ cfg_pc \in {"exit_config", "exit_provider"} => events = <<>>

\* The part that holds: validate lists every missing setting and its error ends
\* the run before Step 1.
ValidateListsAllAndAborts ==
    /\ cfg_pc \notin {"idle", "validate"} => Range(errors) = MissingSettings(config)
    /\ cfg_pc = "exit_config" => events = <<>>
    /\ (cfg_pc \notin {"idle", "validate"} /\ errors # <<>>) => cfg_pc = "exit_config"

--------------------------------------------------------------------------
(* find_url_duplicates, checked on the groups of SpecDedup                 *)

TaskUrls(task) == {task.urls[j] : j \in 1..Len(task.urls)}

\* The normal forms of the URLs of the tasks.
NormalForms ==
    {NormalizeUrl(u) : u \in UNION {TaskUrls(parsed_tasks[k]) : k \in 1..Len(parsed_tasks)}}

\* The ids of the tasks that carry a URL of normal form n.
CarriersOf(n) ==
    {parsed_tasks[k].id : k \in {i \in 1..Len(parsed_tasks) :
                                    \E u \in TaskUrls(parsed_tasks[i]) : NormalizeUrl(u) = n}}

GroupIds(group) == {group.items[j].task.id : j \in 1..Len(group.items)}

\* C15: the groups are exactly the normal forms that at least 2 tasks share, each
\* with the tasks that carry a URL of that form (a task with several URLs in the
\* group of each), and no group has fewer than 2 distinct tasks.
C15_GroupsAreSharedUrls ==
    dd_pc \in {"loop", "done"} =>
        /\ {url_duplicates[g].url : g \in 1..Len(url_duplicates)}
               = {n \in NormalForms : Cardinality(CarriersOf(n)) >= 2}
        /\ \A g \in 1..Len(url_duplicates) :
              /\ GroupIds(url_duplicates[g]) = CarriersOf(url_duplicates[g].url)
              /\ Cardinality(GroupIds(url_duplicates[g])) >= 2

\* What the code does instead: a group is a normal form with at least 2 entries,
\* one entry per URL of a task, be they of one task.
GroupsAreFormsWithTwoEntries ==
    dd_pc \in {"loop", "done"} =>
        /\ \A g \in 1..Len(url_duplicates) :
              /\ GroupIds(url_duplicates[g]) = CarriersOf(url_duplicates[g].url)
              /\ Len(url_duplicates[g].items) >= 2
              /\ \A j \in 1..Len(url_duplicates[g].items) :
                    NormalizeUrl(url_duplicates[g].items[j].original_url)
                        = url_duplicates[g].url
        /\ \A n \in NormalForms :
              Cardinality(CarriersOf(n)) >= 2 =>
                  \E g \in 1..Len(url_duplicates) : url_duplicates[g].url = n

====
